---- MODULE Spec2Model ----
(***************************************************************************)
(* Verification model of the bd-as-service extraction backend.             *)
(*                                                                         *)
(* The module holds several specifications over one set of variables, one  *)
(* per component of the program:                                           *)
(*   SpecRetry    the Sodimac Gemini client (retry loop, usage capture)    *)
(*                followed by the per-item cost step of the batch route    *)
(*   SpecPrice    the price extractors (Leroy Merlin, Sodimac)             *)
(*   SpecProduct  extract_product_data (Leroy Merlin, Decathlon, Sodimac)  *)
(*   SpecImages   the image extractors (Leroy Merlin, Sodimac) and the HD  *)
(*                clean-up of the Sodimac route                            *)
(*   SpecBrand    the brand and barcode extractors                         *)
(*   SpecSams     the shared multimodal client and the Sam's Club route    *)
(*   SpecBatch    the batch routes (Sodimac, Decathlon, Sam's Club)        *)
(*   SpecPipeline the image synthesis pipeline                             *)
(*   SpecGroup    the grouping of an image upload into products            *)
(*   SpecLog      the global log streamer and one SSE stream; SpecLogFair  *)
(*                adds the fairness of the stream's generator              *)
(*   SpecMagalu   the Magalu sync and webhook handlers on the orders table *)
(* A specification leaves the variables of the other components at their   *)
(* idle values.                                                            *)
(***************************************************************************)
EXTENDS Integers, Sequences, FiniteSets, TLC

VARIABLES
    \* ---- Sodimac Gemini client ----
    pc,            \* "idle" | "loop" | "returned" | "costed"
    fn,            \* "data" (extract_product_data_from_url) | "desc" (extract_description_from_url)
    attempt,       \* loop variable of `for attempt in range(max_retries)`
    retry_delay,   \* local retry_delay
    sleeps,        \* durations passed to time.sleep, in call order
    calls,         \* outcomes of the generate_content calls made so far
    ret,           \* value returned to the caller
    item,          \* per-item cost record computed by the batch route; in
                   \* SpecImages the hd_images list of the Sodimac route
    \* ---- HTML extractors (one page, one extractor call) ----
    store,         \* retailer whose extractor is applied
    page,          \* the fetched page: the features of the HTML the code reads
    result,        \* value returned by the extractor
    done           \* TRUE once the extractor has returned

retryVars == <<pc, fn, attempt, retry_delay, sleeps, calls, ret, item>>
extractVars == <<store, page, result, done>>

vars == <<retryVars, extractVars>>

(***************************************************************************)
(* Generic values                                                          *)
(***************************************************************************)
\* Python None where a string is expected, and "key not present"
Null   == "<null>"
Absent == "<absent>"
\* token counts: a non-negative integer, or one of two sentinels
NullTok   == -2     \* attribute present, value None
AbsentTok == -1     \* attribute not present on the object

\* dict.get(key, default) on a JSON object modelled as a record whose
\* missing keys hold Absent
Get(obj, key, default) == IF obj[key] = Absent THEN default ELSE obj[key]

\* `needle in str(e)`: the message is a sequence of words
Contains(msg, needle) == \E i \in 1..Len(msg) : msg[i] = needle

\* str.strip() on the description and title strings of the model
Strip(s) ==
    CASE s = " D1 " -> "D1"
      [] s = " T " -> "T"
      [] s = "  " -> ""
      [] OTHER -> s

SumSeq(s) ==
    LET RECURSIVE Sum(_)
        Sum(i) == IF i = 0 THEN 0 ELSE s[i] + Sum(i - 1)
    IN Sum(Len(s))

(***************************************************************************)
(* The Gemini API as seen by the client: a call raises or returns a        *)
(* response with a text and a usage_metadata object.                       *)
(***************************************************************************)
\* Exceptions raised by generate_content; msg is str(e)
Http429 == [exc |-> "ClientError", msg |-> <<"429", "RESOURCE_EXHAUSTED">>]
Http503 == [exc |-> "ServerError", msg |-> <<"503", "UNAVAILABLE">>]
Http500 == [exc |-> "ServerError", msg |-> <<"500", "INTERNAL">>]
NetDown == [exc |-> "ConnectError", msg |-> <<"connection", "refused">>]

ApiErrors == {Http429, Http503, Http500, NetDown}

IsHttpTransient(e) == e \in {Http429, Http503}

\* response.text: no {...} block, a {...} block that json.loads rejects at a
\* character position, or a JSON object
JsonObjects == [descricao : {Absent, Null, "D1", " D1 "}, titulo : {Absent, "T1"}]

Texts ==
    {[kind |-> "nojson"]}
    \cup [kind : {"badjson"}, pos : {"17", "503"}]
    \cup [kind : {"json"}, obj : JsonObjects]

\* response.usage_metadata: None, or an object whose counts may be missing
TokenFields == {AbsentTok, NullTok, 0, 7}
UsageNone == [none |-> TRUE, prompt_token_count |-> AbsentTok, candidates_token_count |-> AbsentTok]
Usages ==
    {UsageNone}
    \cup [none : {FALSE}, prompt_token_count : TokenFields, candidates_token_count : TokenFields]

Responses == [text : Texts, usage_metadata : Usages]

IsResponse(o) == "text" \in DOMAIN o
IsError(o) == "exc" \in DOMAIN o

Outcomes == ApiErrors \cup Responses

(***************************************************************************)
(* SodimacGeminiClient                                                     *)
(***************************************************************************)
max_retries == 3
base_delay == 2

NoneValue == [none |-> TRUE]

\* results of evaluating the body of the try block
Returns(v) == [tag |-> "return", val |-> v]
Raises(e)  == [tag |-> "raise", exc |-> e]

\* int(getattr(usage, name, 0)): a missing attribute (or usage None) gives
\* the default 0, a None value makes int() raise TypeError
GetTokenAttr(usage, name) ==
    IF usage.none \/ usage[name] = AbsentTok THEN 0 ELSE usage[name]

IntRaises(v) == v = NullTok

TypeErrorInt == [exc |-> "TypeError", msg |-> <<"int()", "argument", "must", "be", "a", "string", "not", "NoneType">>]
NoJsonError == [exc |-> "ValueError", msg |-> <<"JSON", "tecnico", "nao", "encontrado", "na", "resposta">>]
StripError == [exc |-> "AttributeError", msg |-> <<"NoneType", "object", "has", "no", "attribute", "strip">>]
\* str(e) of json.JSONDecodeError ends with the character position of the error
JSONDecodeError(pos) == [exc |-> "JSONDecodeError", msg |-> <<"Expecting", "delimiter:", "line", "1", "(char", pos, ")">>]

\* try block of extract_product_data_from_url
data_try(o) ==
    IF IsError(o) THEN Raises(o)
    ELSE IF o.text.kind = "nojson" THEN Raises(NoJsonError)
    ELSE IF o.text.kind = "badjson" THEN Raises(JSONDecodeError(o.text.pos))
    ELSE Returns([success |-> TRUE,
                  titulo |-> Get(o.text.obj, "titulo", "")])

\* try block of extract_description_from_url
desc_try(o) ==
    IF IsError(o) THEN Raises(o)
    ELSE
      LET usage == o.usage_metadata
          p_in  == GetTokenAttr(usage, "prompt_token_count")
          p_out == GetTokenAttr(usage, "candidates_token_count")
          u_data == [input |-> p_in, output |-> p_out]
      IN  IF IntRaises(p_in) \/ IntRaises(p_out) THEN Raises(TypeErrorInt)
          ELSE IF o.text.kind = "nojson" THEN Returns([descricao |-> "", usage |-> u_data])
          ELSE IF o.text.kind = "badjson" THEN Raises(JSONDecodeError(o.text.pos))
          ELSE LET d == Get(o.text.obj, "descricao", "")
               IN IF d = Null THEN Raises(StripError)
                  ELSE Returns([descricao |-> Strip(d), usage |-> u_data])

\* `if "503" in str(e) or "429" in str(e)`
LooksTransient(e) == Contains(e.msg, "503") \/ Contains(e.msg, "429")

\* `if attempt < max_retries - 1`
ShouldRetry_offbyone(a) == a < max_retries
ShouldRetry(a) == a < max_retries - 1

\* `retry_delay *= 2`
NextDelay_constant(d) == d
NextDelay(d) == d * 2

\* the value returned by the except block when it does not retry
ErrorResult(f, e) ==
    IF f = "data" THEN [success |-> FALSE, error |-> e.msg]
    ELSE [descricao |-> "", usage |-> [input |-> 0, output |-> 0]]

TryBlock(f, o) == IF f = "data" THEN data_try(o) ELSE desc_try(o)

RetryIdle ==
    /\ pc = "idle"
    /\ fn = "data"
    /\ attempt = 0
    /\ retry_delay = 0
    /\ sleeps = <<>>
    /\ calls = <<>>
    /\ ret = NoneValue
    /\ item = NoneValue

\* the extractor variables when no extractor is exercised
ExtractIdle ==
    /\ store = "none"
    /\ page = NoneValue
    /\ result = NoneValue
    /\ done = FALSE

InitRetry == RetryIdle /\ ExtractIdle

\* entry of either method: max_retries = 3, retry_delay = 2, first iteration
CallStart(f) ==
    /\ pc = "idle"
    /\ pc' = "loop"
    /\ fn' = f
    /\ attempt' = 0
    /\ retry_delay' = base_delay
    /\ UNCHANGED <<sleeps, calls, ret, item, extractVars>>

\* one iteration of the for loop: the API call, the try block, the except
\* block; leaving the loop without a return makes the method return None
Attempt(o) ==
    /\ pc = "loop"
    /\ attempt < max_retries
    /\ calls' = Append(calls, o)
    /\ LET r == TryBlock(fn, o) IN
       IF r.tag = "return"
       THEN /\ ret' = r.val
            /\ pc' = "returned"
            /\ UNCHANGED <<attempt, retry_delay, sleeps>>
       ELSE IF LooksTransient(r.exc) /\ ShouldRetry(attempt)
       THEN /\ sleeps' = Append(sleeps, retry_delay)
            /\ retry_delay' = NextDelay(retry_delay)
            /\ attempt' = attempt + 1
            /\ IF attempt + 1 < max_retries
               THEN pc' = "loop" /\ ret' = ret
               ELSE pc' = "returned" /\ ret' = NoneValue
       ELSE /\ ret' = ErrorResult(fn, r.exc)
            /\ pc' = "returned"
            /\ UNCHANGED <<attempt, retry_delay, sleeps>>
    /\ UNCHANGED <<fn, item, extractVars>>

(***************************************************************************)
(* Per-item cost step of the Sodimac batch route (process_product_urls),   *)
(* applied to the value returned by extract_description_from_url.          *)
(* Money is counted in units of 10^-8 BRL: PRICE_IN = 0.10/10^6 * 5.10 BRL *)
(* = 51 units per token, PRICE_OUT = 0.40/10^6 * 5.10 BRL = 204 units.     *)
(***************************************************************************)
PRICE_IN == 51
PRICE_OUT == 204

DefaultUsage == [input |-> 0, output |-> 0]

\* descricao / usage / c_in / c_out / item_cost of one loop iteration; a
\* None result makes gemini_res.get raise into the route's except block
ItemCost(gemini_res) ==
    IF gemini_res = NoneValue
    THEN [raised |-> TRUE, descricao |-> "", input_tokens |-> 0, output_tokens |-> 0,
          c_in |-> 0, c_out |-> 0, item_cost |-> 0]
    ELSE LET usage == gemini_res.usage
             c_in  == usage.input * PRICE_IN
             c_out == usage.output * PRICE_OUT
         IN [raised |-> FALSE, descricao |-> gemini_res.descricao,
             input_tokens |-> usage.input, output_tokens |-> usage.output,
             c_in |-> c_in, c_out |-> c_out, item_cost |-> c_in + c_out]

RouteCost ==
    /\ pc = "returned"
    /\ fn = "desc"
    /\ item' = ItemCost(ret)
    /\ pc' = "costed"
    /\ UNCHANGED <<fn, attempt, retry_delay, sleeps, calls, ret, extractVars>>

NextRetry ==
    \/ \E f \in {"data", "desc"} : CallStart(f)
    \/ \E o \in Outcomes : Attempt(o)
    \/ RouteCost

SpecRetry == InitRetry /\ [][NextRetry]_vars

(***************************************************************************)
(* Claims about the Sodimac Gemini client                                  *)
(***************************************************************************)
Finished == pc \in {"returned", "costed"}

AllTransient == \A i \in 1..Len(calls) : IsHttpTransient(calls[i])

\* a response that carries a description and complete usage metadata
GoodResponse(o) ==
    /\ IsResponse(o)
    /\ o.text.kind = "json"
    /\ o.text.obj.descricao \in {"D1", " D1 "}
    /\ ~o.usage_metadata.none
    /\ o.usage_metadata.prompt_token_count >= 0
    /\ o.usage_metadata.candidates_token_count >= 0

\* C1: whatever the API answers, a call makes at most 3 attempts, ends by
\* returning a value that is not None, and after three 429/503 failures
\* returns the structured error result (zero usage for the description call).
C1_BoundedRetryNeverNone ==
    /\ Len(calls) <= 3
    /\ pc = "loop" => Len(calls) < 3
    /\ Finished => ret # NoneValue
    /\ (Finished /\ Len(calls) = 3 /\ AllTransient) =>
          IF fn = "desc"
          THEN ret = [descricao |-> "", usage |-> [input |-> 0, output |-> 0]]
          ELSE ret.success = FALSE

C1_Witness ==
    /\ pc = "returned" /\ fn = "desc"
    /\ Len(calls) = 3 /\ AllTransient
    /\ ret.usage = [input |-> 0, output |-> 0]

\* C2: 503, 503, success gives exactly three attempts, the payload of the
\* third response, and sleeps of 2s then 4s (6s in total), none after the
\* successful attempt.
C2_BackoffThenSuccess ==
    (Len(calls) >= 2 /\ calls[1] = Http503 /\ calls[2] = Http503) =>
        /\ Len(calls) = 2 => (pc = "loop" /\ sleeps = <<2, 4>>)
        /\ (Len(calls) = 3 /\ GoodResponse(calls[3])) =>
              /\ Finished
              /\ sleeps = <<2, 4>>
              /\ SumSeq(sleeps) = base_delay + 2 * base_delay
              /\ fn = "desc" =>
                    /\ ret.descricao = "D1"
                    /\ ret.usage.input = calls[3].usage_metadata.prompt_token_count
                    /\ ret.usage.output = calls[3].usage_metadata.candidates_token_count
              /\ fn = "data" =>
                    /\ ret.success
                    /\ ret.titulo = Get(calls[3].text.obj, "titulo", "")

C2_Witness ==
    /\ pc = "returned" /\ fn = "desc"
    /\ Len(calls) = 3 /\ calls[1] = Http503 /\ calls[2] = Http503
    /\ GoodResponse(calls[3])
    /\ ret.descricao = "D1" /\ ret.usage.input = 7
    /\ sleeps = <<2, 4>>

\* C3: an attempt that fails for any reason other than an HTTP 429/503
\* error of the API is the last attempt of the call, and a call whose first
\* attempt fails that way has made one attempt and slept not at all.
C3_OtherFailuresNeverRetried ==
    \A i \in 1..Len(calls) :
        ~IsHttpTransient(calls[i]) =>
            /\ i = Len(calls)
            /\ pc # "loop"
            /\ i = 1 => sleeps = <<>>

\* C5: a response with missing or null token counts still yields its
\* description, with 0 reported for each missing count, and the route's cost
\* step does not raise.
MissingAsZero(v) == IF v < 0 THEN 0 ELSE v

C5_MissingUsageDefaultsToZero ==
    \A i \in 1..Len(calls) :
        LET o == calls[i] IN
        (/\ fn = "desc" /\ Finished /\ i = Len(calls)
         /\ IsResponse(o) /\ o.text.kind = "json"
         /\ o.text.obj.descricao \in {"D1", " D1 "}) =>
            /\ ret.descricao = "D1"
            /\ ret.usage.input =
                  (IF o.usage_metadata.none THEN 0
                   ELSE MissingAsZero(o.usage_metadata.prompt_token_count))
            /\ ret.usage.output =
                  (IF o.usage_metadata.none THEN 0
                   ELSE MissingAsZero(o.usage_metadata.candidates_token_count))
            /\ pc = "costed" => ~item.raised

(***************************************************************************)
(* Price strings.  A price string is the sequence of its characters ("R$"  *)
(* counts as one), so that parsing, formatting and substring search work   *)
(* on the text as the code does.                                           *)
(***************************************************************************)
Digits == {"0", "1", "2", "3", "4", "5", "6", "7", "8", "9"}

DigitVal(c) ==
    CASE c = "0" -> 0 [] c = "1" -> 1 [] c = "2" -> 2 [] c = "3" -> 3
      [] c = "4" -> 4 [] c = "5" -> 5 [] c = "6" -> 6 [] c = "7" -> 7
      [] c = "8" -> 8 [] c = "9" -> 9

DigitChar(d) ==
    CASE d = 0 -> "0" [] d = 1 -> "1" [] d = 2 -> "2" [] d = 3 -> "3"
      [] d = 4 -> "4" [] d = 5 -> "5" [] d = 6 -> "6" [] d = 7 -> "7"
      [] d = 8 -> "8" [] d = 9 -> "9"

\* str.replace(c, '')
RemoveAll(s, c) == SelectSeq(s, LAMBDA x : x # c)

\* str.replace(a, b) for single characters
ReplaceAll(s, a, b) == [i \in 1..Len(s) |-> IF s[i] = a THEN b ELSE s[i]]

\* str.strip()
RECURSIVE StripChars(_)
StripChars(s) ==
    IF s = <<>> THEN s
    ELSE IF Head(s) = " " THEN StripChars(Tail(s))
    ELSE IF s[Len(s)] = " " THEN StripChars(SubSeq(s, 1, Len(s) - 1))
    ELSE s

\* value of a string of digits
RECURSIVE DigitsVal(_)
DigitsVal(s) == IF s = <<>> THEN 0 ELSE 10 * DigitsVal(SubSeq(s, 1, Len(s) - 1)) + DigitVal(s[Len(s)])

\* decimal digits of a natural number
RECURSIVE NatDigits(_)
NatDigits(n) == IF n < 10 THEN <<DigitChar(n)>> ELSE NatDigits(n \div 10) \o <<DigitChar(n % 10)>>

\* position of the first c in s, 0 when there is none
FirstIndex(s, c) ==
    IF \E i \in 1..Len(s) : s[i] = c
    THEN CHOOSE i \in 1..Len(s) : s[i] = c /\ \A j \in 1..(i - 1) : s[j] # c
    ELSE 0

\* float(clean), in centavos; -1 when float() raises ValueError.  Fractions
\* of more than two digits do not occur in the model.
FloatCents(clean) ==
    LET dot  == FirstIndex(clean, ".")
        ip   == IF dot = 0 THEN clean ELSE SubSeq(clean, 1, dot - 1)
        fp   == IF dot = 0 THEN <<>> ELSE SubSeq(clean, dot + 1, Len(clean))
        ok   == /\ \A i \in 1..Len(ip) : ip[i] \in Digits
                /\ \A i \in 1..Len(fp) : fp[i] \in Digits
                /\ Len(ip) + Len(fp) > 0
                /\ Len(fp) <= 2
        frac == IF Len(fp) = 0 THEN 0
                ELSE IF Len(fp) = 1 THEN 10 * DigitsVal(fp) ELSE DigitsVal(fp)
    IN IF ok THEN 100 * DigitsVal(ip) + frac ELSE -1

\* parse_price of the Leroy Merlin extractor, in centavos
parse_price(price_str) ==
    LET clean1 == StripChars(RemoveAll(price_str, "R$"))
        clean2 == RemoveAll(clean1, ".")
        clean3 == ReplaceAll(clean2, ",", ".")
        v      == FloatCents(clean3)
    IN IF v < 0 THEN 0 ELSE v

\* f"R$ {price_float:,.2f}" with the separators swapped to the Brazilian
\* form; the argument is the price in centavos, below one million reais
FormatBRL(cents) ==
    LET n    == cents \div 100
        c    == cents % 100
        low  == n % 1000
        ipart == IF n < 1000 THEN NatDigits(n)
                 ELSE NatDigits(n \div 1000) \o <<".">>
                      \o <<DigitChar(low \div 100), DigitChar((low \div 10) % 10), DigitChar(low % 10)>>
    IN <<"R$", " ">> \o ipart \o <<",", DigitChar(c \div 10), DigitChar(c % 10)>>

\* the regular expression R\$\s*[\d.]+,\d{2} matches the whole string
RECURSIVE AllIn(_, _)
AllIn(s, S) == s = <<>> \/ (Head(s) \in S /\ AllIn(Tail(s), S))

RECURSIVE DropSpaces(_)
DropSpaces(s) == IF s # <<>> /\ Head(s) = " " THEN DropSpaces(Tail(s)) ELSE s

MatchesWithCents(t) ==
    /\ Len(t) >= 5
    /\ Head(t) = "R$"
    /\ LET body == DropSpaces(Tail(t))
           n    == Len(body)
       IN /\ n >= 4
          /\ body[n] \in Digits /\ body[n - 1] \in Digits /\ body[n - 2] = ","
          /\ AllIn(SubSeq(body, 1, n - 3), Digits \cup {"."})

\* the regular expression R\$\s*[\d.]+(?:,\d{2})? matches the whole string
MatchesAnyPrice(t) ==
    \/ MatchesWithCents(t)
    \/ /\ Len(t) >= 2
       /\ Head(t) = "R$"
       /\ LET body == DropSpaces(Tail(t))
          IN body # <<>> /\ AllIn(body, Digits \cup {"."})

\* needle occurs in hay starting at position 1 (a price string found inside
\* the text of a price of the page starts where that price starts)
StartsWith(hay, needle) ==
    /\ Len(needle) <= Len(hay)
    /\ SubSeq(hay, 1, Len(needle)) = needle

(***************************************************************************)
(* A product page as the price extractors read it: an optional JSON-LD     *)
(* block with offers.price, and the prices in the text in document order.  *)
(* Each price occurrence records                                           *)
(*   text    the characters of the price                                   *)
(*   follow  the words right after it: "a_vista" (a vista), "a_prazo"      *)
(*           (a prazo / em ate), or "none"                                 *)
(*   marker  the text from 40 characters before the price to 40 characters *)
(*           after its start matches \d+x|parcelado|parcela|sem juros      *)
(*   area    "heading" (inside a heading-lg/xl/2xl/md element), "div"      *)
(*           (inside a product-main-img / product-image-holder /           *)
(*           gallery-container div), "h1" or "body"                        *)
(* Occurrences lie more than 40 characters apart.                          *)
(***************************************************************************)
PriceTexts ==
    { <<"R$", " ", "1", "0">>,
      <<"R$", " ", "1", "0", ",", "0", "0">>,
      <<"R$", " ", "1", "0", "0", ",", "0", "0">>,
      <<"R$", "1", "0", "0", ",", "0", "0">>,
      <<"R$", " ", "1", ".", "0", "0", "0", ",", "0", "0">> }

NoLd == [type |-> "none", price |-> 0]
LdBlocks == {NoLd} \cup [type : {"Product", "product"}, price : {10000}]

LeroyOccurrences ==
    [text : PriceTexts, follow : {"none", "a_vista", "a_prazo"}, marker : {FALSE},
     area : {"body", "heading"}]

SodimacOccurrences ==
    [text : PriceTexts, follow : {"none"}, marker : BOOLEAN,
     area : {"body", "div", "h1"}]

MaxOcc == 2

BoundedSeq(S, n) == UNION {[1..k -> S] : k \in 0..n}

PricePages(st) ==
    [ld : LdBlocks,
     occ : BoundedSeq(IF st = "leroy_merlin" THEN LeroyOccurrences ELSE SodimacOccurrences,
                      MaxOcc)]

\* texts of a list of occurrences, in order
TextsOf(sel) == [i \in 1..Len(sel) |-> sel[i].text]

FirstN(s, n) == SubSeq(s, 1, IF Len(s) < n THEN Len(s) ELSE n)

\* max(price_values, key=lambda x: x[1]): the first price whose parsed
\* value is maximal
HighestPrice(all_prices) ==
    LET i == CHOOSE i \in 1..Len(all_prices) :
                 /\ \A j \in 1..Len(all_prices) : parse_price(all_prices[j]) <= parse_price(all_prices[i])
                 /\ \A j \in 1..(i - 1) : parse_price(all_prices[j]) < parse_price(all_prices[i])
    IN all_prices[i]

NoPrice == <<>>

(***************************************************************************)
(* leroy_merlin/scraper/url_extractor.py: extract_price_from_html          *)
(***************************************************************************)
FallbackLimit == 5

\* strategy 1: offers.price of a JSON-LD block whose @type is 'Product'
LeroyJsonLdPrices(pg) ==
    IF pg.ld.type = "Product" /\ pg.ld.price # 0 THEN <<FormatBRL(pg.ld.price)>> ELSE <<>>

\* strategies 1 to 4 and the fallback: the list all_prices
LeroyAllPrices(pg) ==
    LET vista    == TextsOf(SelectSeq(pg.occ, LAMBDA o : MatchesWithCents(o.text) /\ o.follow = "a_vista"))
        parcel   == TextsOf(SelectSeq(pg.occ, LAMBDA o : MatchesWithCents(o.text) /\ o.follow = "a_prazo"))
        heading  == TextsOf(SelectSeq(pg.occ, LAMBDA o : MatchesWithCents(o.text) /\ o.area = "heading"))
        found    == LeroyJsonLdPrices(pg) \o vista \o parcel \o heading
        fallback == FirstN(TextsOf(SelectSeq(pg.occ, LAMBDA o : MatchesWithCents(o.text))), FallbackLimit)
    IN IF found # <<>> THEN found ELSE fallback

\* returns None (NoPrice) when nothing was collected, else the highest price
leroy_extract_price_from_html(pg) ==
    LET all_prices == LeroyAllPrices(pg)
    IN IF all_prices = <<>> THEN NoPrice
       ELSE HighestPrice(all_prices)

(***************************************************************************)
(* sodimac/scraper/url_extractor.py: extract_price_from_html               *)
(***************************************************************************)
\* strategy 1: offers.price of a JSON-LD block whose @type is 'product'
SodimacJsonLdPrices(pg) ==
    IF pg.ld.type = "product" /\ pg.ld.price # 0 THEN <<FormatBRL(pg.ld.price)>> ELSE <<>>

\* strategy 2 and the fallback: the list price_candidates
SodimacPriceCandidates(pg) ==
    LET divs == TextsOf(SelectSeq(pg.occ, LAMBDA o : MatchesWithCents(o.text) /\ o.area = "div"))
        h1s  == TextsOf(SelectSeq(pg.occ, LAMBDA o : MatchesWithCents(o.text) /\ o.area = "h1"))
        fallback == FirstN(TextsOf(SelectSeq(pg.occ, LAMBDA o : MatchesWithCents(o.text))), FallbackLimit)
    IN IF SodimacJsonLdPrices(pg) = <<>> /\ divs \o h1s = <<>> THEN fallback ELSE divs \o h1s

\* html.find(price): index of the first occurrence in whose text the string
\* is found, 0 when it is found nowhere
HtmlFind(pg, price) ==
    IF \E i \in 1..Len(pg.occ) : StartsWith(pg.occ[i].text, price)
    THEN CHOOSE i \in 1..Len(pg.occ) :
            /\ StartsWith(pg.occ[i].text, price)
            /\ \A j \in 1..(i - 1) : ~StartsWith(pg.occ[j].text, price)
    ELSE 0

\* is_installment_price(price, html): the pattern is searched around the
\* position html.find returns; a string that is found nowhere (-1) is
\* searched in the whole document but its last character
is_installment_price_never(pg, price) == FALSE

is_installment_price(pg, price) ==
    LET idx == HtmlFind(pg, price)
    IN IF idx = 0 THEN \E i \in 1..Len(pg.occ) : pg.occ[i].marker
       ELSE pg.occ[idx].marker

sodimac_extract_price_from_html(pg) ==
    LET all_prices       == SodimacJsonLdPrices(pg)
        price_candidates == SodimacPriceCandidates(pg)
        all_price_texts  == TextsOf(SelectSeq(pg.occ, LAMBDA o : MatchesAnyPrice(o.text)))
        filtered_prices  == SelectSeq(all_price_texts, LAMBDA t : ~is_installment_price(pg, t))
        genuine          == SelectSeq(price_candidates, LAMBDA t : ~is_installment_price(pg, t))
    IN IF genuine # <<>> THEN Head(genuine)
       ELSE IF filtered_prices # <<>> THEN Head(filtered_prices)
       ELSE IF all_prices # <<>> THEN Head(all_prices)
       ELSE NoPrice

(***************************************************************************)
(* Specification of the price extractors: a page is drawn, its retailer's  *)
(* extractor is applied once.                                              *)
(***************************************************************************)
PriceStores == {"leroy_merlin", "sodimac"}

InitPrice ==
    /\ RetryIdle
    /\ store \in PriceStores
    /\ page \in PricePages(store)
    /\ result = NoneValue
    /\ done = FALSE

LeroyExtractPrice ==
    /\ store = "leroy_merlin"
    /\ ~done
    /\ result' = leroy_extract_price_from_html(page)
    /\ done' = TRUE
    /\ UNCHANGED <<store, page, retryVars>>

SodimacExtractPrice ==
    /\ store = "sodimac"
    /\ ~done
    /\ result' = sodimac_extract_price_from_html(page)
    /\ done' = TRUE
    /\ UNCHANGED <<store, page, retryVars>>

NextPrice == LeroyExtractPrice \/ SodimacExtractPrice

SpecPrice == InitPrice /\ [][NextPrice]_vars

(***************************************************************************)
(* Claims about the price extractors                                       *)
(***************************************************************************)
\* an occurrence whose context marks it as an installment price
InstallmentMarked(o) == o.marker \/ o.follow = "a_prazo"

NoInstallmentMarkers(pg) == \A i \in 1..Len(pg.occ) : ~InstallmentMarked(pg.occ[i])

\* every price string the extractor of the store collects from the page
CollectedPrices(st, pg) ==
    IF st = "leroy_merlin" THEN LeroyAllPrices(pg)
    ELSE SodimacJsonLdPrices(pg) \o SodimacPriceCandidates(pg)
         \o TextsOf(SelectSeq(pg.occ, LAMBDA o : MatchesAnyPrice(o.text)))

PriceDone == done /\ store \in PriceStores

\* C6: on a page without installment markers the extractor returns the
\* collected price of maximum value, the first one among equal maxima.
C6_MaxOfGenuinePrices ==
    (PriceDone /\ NoInstallmentMarkers(page) /\ CollectedPrices(store, page) # <<>>) =>
        LET c == CollectedPrices(store, page)
        IN \E i \in 1..Len(c) :
              /\ result = c[i]
              /\ \A j \in 1..Len(c) : parse_price(c[j]) <= parse_price(c[i])
              /\ \A j \in 1..(i - 1) : parse_price(c[j]) < parse_price(c[i])

\* a returned price is genuine when it is the text of an occurrence that is
\* not installment-marked, or the price of the JSON-LD block
GenuineResult(pg, r) ==
    \/ \E i \in 1..Len(pg.occ) : pg.occ[i].text = r /\ ~InstallmentMarked(pg.occ[i])
    \/ pg.ld.type # "none" /\ r = FormatBRL(pg.ld.price)

\* C7 (as stated): the returned price is never an installment-marked
\* candidate, whatever its magnitude.
C7_InstallmentNeverReturned ==
    (PriceDone /\ result # NoPrice) => GenuineResult(page, result)

\* C7 (amended): the Sodimac extractor returns a price of the page text only
\* if the first place where that string is found has no installment marker
\* within its window (else the JSON-LD price, unchecked); the Leroy Merlin
\* extractor excludes nothing: its result is at least as high as every price
\* it collects, those followed by "a prazo"/"em ate" included.
C7_SodimacExcludesLeroyKeeps ==
    /\ (done /\ store = "sodimac" /\ result # NoPrice) =>
          \/ \E i \in 1..Len(page.occ) :
                /\ StartsWith(page.occ[i].text, result)
                /\ ~page.occ[i].marker
                /\ \A j \in 1..(i - 1) : ~StartsWith(page.occ[j].text, result)
          \/ /\ page.ld.type = "product"
             /\ result = FormatBRL(page.ld.price)
             /\ \A i \in 1..Len(page.occ) :
                   \E j \in 1..i : StartsWith(page.occ[j].text, page.occ[i].text) /\ page.occ[j].marker
    /\ (done /\ store = "leroy_merlin") =>
          \A i \in 1..Len(page.occ) :
             LET o == page.occ[i] IN
             (MatchesWithCents(o.text) /\ (o.follow # "none" \/ o.area = "heading")) =>
                 /\ result # NoPrice
                 /\ parse_price(o.text) <= parse_price(result)

\* an installment-marked price is the largest of a Sodimac page and a
\* smaller, unmarked price is returned
C7_Witness ==
    /\ done /\ store = "sodimac" /\ result # NoPrice
    /\ \E i \in 1..Len(page.occ) :
          /\ page.occ[i].marker
          /\ parse_price(page.occ[i].text) > parse_price(result)
    /\ \E i \in 1..Len(page.occ) : page.occ[i].text = result /\ ~page.occ[i].marker

(***************************************************************************)
(* extract_product_data: the page is fetched, then title and price are     *)
(* extracted and the success flag is computed.                             *)
(***************************************************************************)
\* outcome of requests.get + raise_for_status
FetchOutcomes == {"ok", "http_404", "timeout"}

FetchError(f) == IF f = "http_404" THEN <<"404", "Client", "Error">> ELSE <<"Read", "timed", "out">>

\* `if x:` on a string that may be missing, None or empty
Truthy(x) == x \notin {Absent, Null, ""}

\* result of a failed call; keys the code leaves out hold Absent
FailedExtraction(titulo, preco, msg) ==
    [titulo |-> titulo, preco |-> preco, success |-> FALSE, error |-> msg]

(***************************************************************************)
(* leroy_merlin/scraper/url_extractor.py                                   *)
(***************************************************************************)
LeroyLdBlocks ==
    {[type |-> "none", name |-> Absent, price |-> 0]}
    \cup [type : {"Product", "product"}, name : {Absent, "  ", " T "}, price : {0, 10000}]

MaxOccProduct == 1

LeroyProductPages ==
    [fetch : {"ok"}, ld : LeroyLdBlocks, h1 : {Absent, "  ", "H"}, og : {Absent, "  ", "O"},
     occ : BoundedSeq(LeroyOccurrences, MaxOccProduct)]
    \cup [fetch : FetchOutcomes \ {"ok"}, ld : {[type |-> "none", name |-> Absent, price |-> 0]},
          h1 : {Absent}, og : {Absent}, occ : {<<>>}]

\* JSON-LD name of a 'Product' block, else the text of the first <h1>, else
\* og:title, else None
extract_title_from_html(pg) ==
    IF pg.ld.type = "Product" /\ Truthy(pg.ld.name) THEN Strip(pg.ld.name)
    ELSE IF pg.h1 # Absent /\ Strip(pg.h1) # "" THEN Strip(pg.h1)
    ELSE IF pg.og # Absent THEN Strip(pg.og)
    ELSE Null

\* `bool(titulo and preco)`
LeroySuccess(titulo, preco) == Truthy(titulo) /\ preco # NoPrice

leroy_extract_product_data(pg) ==
    IF pg.fetch # "ok"
    THEN FailedExtraction("", NoPrice, FetchError(pg.fetch))
    ELSE LET titulo == extract_title_from_html(pg)
             preco  == leroy_extract_price_from_html(pg)
             success == LeroySuccess(titulo, preco)
         IN [titulo |-> IF Truthy(titulo) THEN titulo ELSE "",
             preco |-> preco,
             success |-> success,
             error |-> IF success THEN <<>> ELSE <<"Failed", "to", "extract", "title", "or", "price">>]

(***************************************************************************)
(* decathlon/scraper/url_extractor.py                                      *)
(***************************************************************************)
\* a field of the offers object: missing, null, or an amount in centavos
AbsentAmt == -1
NullAmt == -2

DecathlonOffers ==
    {[shape |-> "absent", price |-> AbsentAmt, lowPrice |-> AbsentAmt, highPrice |-> AbsentAmt],
     [shape |-> "list", price |-> AbsentAmt, lowPrice |-> AbsentAmt, highPrice |-> AbsentAmt]}
    \cup [shape : {"dict"}, price : {AbsentAmt, 5000}, lowPrice : {AbsentAmt, 4000},
          highPrice : {AbsentAmt, NullAmt, 6000}]

\* one <script type="application/ld+json">: text json.loads rejects, or one
\* JSON object
DecathlonScripts ==
    {[valid |-> FALSE, type |-> "Other", name |-> Absent,
      offers |-> [shape |-> "absent", price |-> AbsentAmt, lowPrice |-> AbsentAmt, highPrice |-> AbsentAmt]]}
    \cup [valid : {TRUE}, type : {"Product", "Other"}, name : {Absent, "T"}, offers : DecathlonOffers]

MaxScripts == 2

DecathlonPages ==
    [fetch : {"ok"}, scripts : BoundedSeq(DecathlonScripts, MaxScripts)]
    \cup [fetch : FetchOutcomes \ {"ok"}, scripts : {<<>>}]

\* offers.get(key, 0)
OfferGet(offers, key) == IF offers[key] = AbsentAmt THEN 0 ELSE offers[key]

\* body of the loop over the scripts; acc holds title, price and whether the
\* loop has been left by `if title: break`
DecathlonScriptStep(acc, sc) ==
    IF acc.stop THEN acc
    ELSE IF ~sc.valid THEN acc
    ELSE IF sc.type # "Product" THEN [acc EXCEPT !.stop = Truthy(acc.title)]
    ELSE LET title == IF sc.name = Absent THEN "" ELSE sc.name
             withTitle == [acc EXCEPT !.title = title]
             o == IF sc.offers.shape = "absent"
                  THEN [shape |-> "dict", price |-> AbsentAmt, lowPrice |-> AbsentAmt, highPrice |-> AbsentAmt]
                  ELSE sc.offers
             first == IF OfferGet(o, "price") # 0 THEN OfferGet(o, "price") ELSE OfferGet(o, "lowPrice")
             high  == OfferGet(o, "highPrice")
         IN IF o.shape = "list" \/ first = NullAmt \/ high = NullAmt
            THEN withTitle
            ELSE [title |-> title,
                  price |-> IF first >= high THEN first ELSE high,
                  stop |-> Truthy(title)]

RECURSIVE DecathlonScan(_, _)
DecathlonScan(acc, scripts) ==
    IF scripts = <<>> THEN acc
    ELSE DecathlonScan(DecathlonScriptStep(acc, Head(scripts)), Tail(scripts))

\* `success = True if title else False`
DecathlonSuccess(title) == Truthy(title)

decathlon_extract_product_data(pg) ==
    IF pg.fetch # "ok"
    THEN FailedExtraction(Absent, NoPrice, FetchError(pg.fetch))
    ELSE LET acc == DecathlonScan([title |-> "", price |-> 0, stop |-> FALSE], pg.scripts)
             success == DecathlonSuccess(acc.title)
         IN [titulo |-> acc.title,
             preco |-> FormatBRL(acc.price),
             success |-> success,
             error |-> IF success THEN <<>> ELSE <<"Dados", "do", "produto", "nao", "encontrados">>]

(***************************************************************************)
(* sodimac/scraper/url_extractor.py                                        *)
(***************************************************************************)
\* the image member of the JSON-LD product: missing, one URL, a list of
\* URLs, or a list of ImageObject dictionaries
SodimacLdImages == {"absent", "string", "strings", "objects"}

\* the page as extract_product_data downloads it, and the outcome of the
\* second download that extract_images makes
SodimacProductPages ==
    [fetch : {"ok"}, title : {"", "T"}, preco : {"", "R$ 10,00"},
     image : SodimacLdImages, images_fetch : FetchOutcomes]
    \cup [fetch : FetchOutcomes \ {"ok"}, title : {""}, preco : {""},
          image : {"absent"}, images_fetch : {"ok"}]

\* extract_images: a failed download gives []; otherwise every candidate
\* goes through u.replace, which a dictionary does not have
sodimac_product_images(pg) ==
    IF pg.images_fetch # "ok" THEN Returns(<<>>)
    ELSE IF pg.image = "objects"
    THEN Raises([exc |-> "AttributeError",
                 msg |-> <<"dict", "object", "has", "no", "attribute", "replace">>])
    ELSE Returns(IF pg.image = "absent" THEN <<>> ELSE <<"img">>)

\* only requests.exceptions.RequestException is caught; the error
\* dictionary has no success key and the data dictionary no error key
sodimac_extract_product_data(pg) ==
    IF pg.fetch # "ok"
    THEN [titulo |-> "", preco |-> Null, image_urls |-> <<>>, error |-> FetchError(pg.fetch)]
    ELSE LET images == sodimac_product_images(pg)
         IN IF images.tag = "raise" THEN images
            ELSE [titulo |-> pg.title, preco |-> pg.preco, image_urls |-> images.val]

(***************************************************************************)
(* Specification of extract_product_data: a page is drawn and the          *)
(* retailer's function is applied once.                                    *)
(***************************************************************************)
ProductStores == {"leroy_merlin", "decathlon"}

BoundaryStores == ProductStores \cup {"sodimac"}

ProductPages(st) ==
    IF st = "leroy_merlin" THEN LeroyProductPages
    ELSE IF st = "decathlon" THEN DecathlonPages
    ELSE SodimacProductPages

InitProduct ==
    /\ RetryIdle
    /\ store \in BoundaryStores
    /\ page \in ProductPages(store)
    /\ result = NoneValue
    /\ done = FALSE

LeroyExtractProduct ==
    /\ store = "leroy_merlin"
    /\ ~done
    /\ result' = leroy_extract_product_data(page)
    /\ done' = TRUE
    /\ UNCHANGED <<store, page, retryVars>>

DecathlonExtractProduct ==
    /\ store = "decathlon"
    /\ ~done
    /\ result' = decathlon_extract_product_data(page)
    /\ done' = TRUE
    /\ UNCHANGED <<store, page, retryVars>>

SodimacExtractProduct ==
    /\ store = "sodimac"
    /\ ~done
    /\ result' = sodimac_extract_product_data(page)
    /\ done' = TRUE
    /\ UNCHANGED <<store, page, retryVars>>

NextProduct == LeroyExtractProduct \/ DecathlonExtractProduct \/ SodimacExtractProduct

SpecProduct == InitProduct /\ [][NextProduct]_vars

(***************************************************************************)
(* Claims about extract_product_data                                       *)
(***************************************************************************)
\* the page carries a price the extractor of the store can read
PriceOnPage(st, pg) ==
    IF st = "leroy_merlin"
    THEN \/ pg.ld.type = "Product" /\ pg.ld.price > 0
         \/ \E i \in 1..Len(pg.occ) : MatchesWithCents(pg.occ[i].text)
    ELSE \E i \in 1..Len(pg.scripts) :
            LET sc == pg.scripts[i] IN
            /\ sc.valid /\ sc.type = "Product" /\ sc.offers.shape = "dict"
            /\ (sc.offers.price > 0 \/ sc.offers.lowPrice > 0 \/ sc.offers.highPrice > 0)

\* C8: a result that reports success has a non-empty title and a price that
\* was found on the page.
C8_SuccessHasTitleAndPrice ==
    (done /\ store \in ProductStores /\ result.success) =>
        /\ Truthy(result.titulo)
        /\ result.preco # NoPrice
        /\ PriceOnPage(store, page)

(***************************************************************************)
(* Image extractors.  An image URL is a record of the parts of its text    *)
(* the code looks at; n tells apart URLs that agree on those parts.        *)
(***************************************************************************)
\* needle is a substring of hay (both sequences of characters)
HasSub(hay, needle) ==
    \E k \in 0..(Len(hay) - Len(needle)) : SubSeq(hay, k + 1, k + Len(needle)) = needle

\* keeps the first occurrence of every element (`if u not in normalized`)
RECURSIVE Dedupe(_)
Dedupe(s) ==
    IF s = <<>> THEN <<>>
    ELSE LET init == Dedupe(SubSeq(s, 1, Len(s) - 1))
             x    == s[Len(s)]
         IN IF \E i \in 1..Len(init) : init[i] = x THEN init ELSE Append(init, x)

\* `if len(final_order) > 10: final_order = final_order[:10]`
ImageCap == 10

CapImages_uncapped(l) == l
CapImages(l) == FirstN(l, ImageCap)

(***************************************************************************)
(* leroy_merlin/scraper/url_extractor.py: extract_images_1800              *)
(*   num   the digits of the product number in the URL                     *)
(*   slug  the product name in the URL                                     *)
(*   hi    the URL contains 1800x1800                                      *)
(*   esc   the URL is written with escaped slashes                         *)
(***************************************************************************)
OwnNum   == <<"1", "2", "3", "4", "5">>
SuperNum == <<"9", "1", "2", "3", "4", "5">>
OtherNum == <<"6", "7", "8", "9", "0">>

SlugOf(num) == IF num = OwnNum THEN "furadeira" ELSE "serra"

LeroyUrl(num, hi, esc, n) == [num |-> num, slug |-> SlugOf(num), hi |-> hi, esc |-> esc, n |-> n]

\* URLs the free parts of a page are made of
LeroyFreeUrls ==
    {LeroyUrl(num, hi, FALSE, 1) : num \in {OwnNum, SuperNum, OtherNum}, hi \in BOOLEAN}
    \cup {LeroyUrl(OwnNum, TRUE, TRUE, 1)}

\* k distinct URLs of the own product, all of one resolution
LeroyBulk(k, hi) == [i \in 1..k |-> LeroyUrl(OwnNum, hi, FALSE, 10 + i)]

\* most free URLs on a page (before and after the bulk together), and most
\* URLs in the bulk
MaxFree == 2
MaxBulk == 10

\* the product page URL: its first run of five or more digits (empty when
\* there is none) and the last segment of its path
LeroyProductUrls ==
    {[id |-> OwnNum, last |-> "furadeira_12345"],
     [id |-> <<>>, last |-> "furadeira_x"],
     [id |-> <<>>, last |-> "_x"],
     [id |-> <<>>, last |-> ""]}

\* the pages of product URL pu; candidates is the list collected by steps 1
\* to 4 (zoom entries, 1800x1800 URLs, src/srcset attributes, og:image), in
\* collection order
LeroyImagePages(pu) ==
    {[fetch |-> "ok", product_url |-> pu,
      candidates |-> SubSeq(free, 1, cut) \o LeroyBulk(k, hi) \o SubSeq(free, cut + 1, Len(free))] :
        <<free, cut>> \in {<<fr, c>> \in BoundedSeq(LeroyFreeUrls, MaxFree) \X (0..MaxFree) : c <= Len(fr)},
        k \in 0..MaxBulk, hi \in BOOLEAN}
    \cup {[fetch |-> f, product_url |-> pu, candidates |-> <<>>] : f \in FetchOutcomes \ {"ok"}}

\* u.replace('\\/', '/') and unquote(u)
LeroyUnescape(u) == [u EXCEPT !.esc = FALSE]

LeroyNormalized(candidates) ==
    Dedupe([i \in 1..Len(candidates) |-> LeroyUnescape(candidates[i])])

\* last.split('_')[0]
LastHead(last) ==
    CASE last = "furadeira_12345" -> "furadeira"
      [] last = "furadeira_x" -> "furadeira"
      [] OTHER -> ""

\* `product_id in u` / `last.split('_')[0] in u`
LeroyRelevant(pu, u) ==
    IF pu.id # <<>> THEN HasSub(u.num, pu.id)
    ELSE pu.last # "" /\ (LastHead(pu.last) = "" \/ LastHead(pu.last) = u.slug)

LeroyFiltered_unfiltered(pu, normalized) == normalized
LeroyFiltered(pu, normalized) == SelectSeq(normalized, LAMBDA u : LeroyRelevant(pu, u))

\* the 1800x1800 URLs first, then the others, each URL once
LeroyFinalOrder(filtered) ==
    Dedupe(SelectSeq(filtered, LAMBDA u : u.hi) \o filtered)

leroy_extract_images_1800(pg) ==
    IF pg.fetch # "ok" THEN <<>>
    ELSE LET normalized  == LeroyNormalized(pg.candidates)
             filtered    == LeroyFiltered(pg.product_url, normalized)
             final_order == LeroyFinalOrder(filtered)
         IN CapImages(IF final_order = <<>> THEN normalized ELSE final_order)

(***************************************************************************)
(* sodimac/scraper/url_extractor.py: extract_images                        *)
(*   loc     where the URL stands: "ld" (image of a JSON-LD 'product'      *)
(*           block), "gal" (<img> inside a gallery container div) or       *)
(*           "img" (any other <img>)                                       *)
(*   num     the digits after sodimacBR/ in the URL                        *)
(*   fal     the URL contains media.falabella.com/sodimacBR/               *)
(*   params  size parameters: "hq" (w=2348,h=832), "wh" (other w= and h=), *)
(*           "none"; "w" is what the route's clean-up leaves of w=..,h=..  *)
(*   tail    what follows the size parameters after a further comma        *)
(***************************************************************************)
SodOwn   == <<"1", "2", "3">>
SodOther == <<"4", "5", "6">>

SodimacImgs ==
    [loc : {"ld", "gal", "img"}, num : {SodOwn, SodOther}, fal : {TRUE},
     params : {"wh"}, n : {1}, tail : {""}]
    \cup [loc : {"ld", "gal", "img"}, num : {SodOwn, SodOther}, fal : {FALSE},
          params : {"none"}, n : {1}, tail : {""}]
    \cup [loc : {"gal"}, num : {SodOwn}, fal : {TRUE}, params : {"hq", "none"}, n : {1},
          tail : {""}]
    \cup [loc : {"gal"}, num : {SodOwn}, fal : {TRUE}, params : {"wh"}, n : {1},
          tail : {",fit=pad"}]

SodimacBulk(k) ==
    [i \in 1..k |-> [loc |-> "img", num |-> SodOwn, fal |-> TRUE, params |-> "wh", n |-> 10 + i,
                    tail |-> ""]]

MaxSodimacImgs == 2

\* the digits of /product/<digits>/ in the product URL (empty when the URL
\* has no such part)
SodimacProductUrls == {[id |-> SodOwn], [id |-> <<>>]}

\* the pages of product URL pu; imgs are the image URLs of the page in
\* document order
SodimacImagePages(pu) ==
    {[fetch |-> "ok", product_url |-> pu, imgs |-> SodimacBulk(k) \o free] :
        k \in 0..MaxBulk,
        free \in BoundedSeq(SodimacImgs, MaxSodimacImgs)}
    \cup {[fetch |-> f, product_url |-> pu, imgs |-> <<>>] : f \in FetchOutcomes \ {"ok"}}

SrcOf(img) ==
    [num |-> img.num, fal |-> img.fal, params |-> img.params, n |-> img.n, tail |-> img.tail]

SrcsOf(imgs) == [i \in 1..Len(imgs) |-> SrcOf(imgs[i])]

\* `f'sodimacBR/{product_id}' in src`
SodimacMatchesId(id, img) == img.fal /\ StartsWith(img.num, id)

\* the <img> tags whose src names the product, then the <img> tags of the
\* gallery containers that are not in the list yet
SodimacGalleryImgs(pg) ==
    LET byId == IF pg.product_url.id # <<>>
                THEN SrcsOf(SelectSeq(pg.imgs, LAMBDA i : i.loc # "ld" /\ SodimacMatchesId(pg.product_url.id, i)))
                ELSE <<>>
        RECURSIVE AddNew(_, _)
        AddNew(acc, rest) ==
            IF rest = <<>> THEN acc
            ELSE AddNew(IF \E j \in 1..Len(acc) : acc[j] = Head(rest) THEN acc
                        ELSE Append(acc, Head(rest)),
                        Tail(rest))
    IN AddNew(byId, SrcsOf(SelectSeq(pg.imgs, LAMBDA i : i.loc = "gal")))

\* the size parameters of a falabella URL are rewritten to w=2348,h=832
SodimacRewrite(u) == IF u.fal THEN [u EXCEPT !.params = "hq"] ELSE u

\* the JSON-LD images, then the gallery images, rewritten, each URL once
SodimacNormalized(pg) ==
    LET candidates == SrcsOf(SelectSeq(pg.imgs, LAMBDA i : i.loc = "ld"))
        all_imgs   == candidates \o SodimacGalleryImgs(pg)
    IN Dedupe([i \in 1..Len(all_imgs) |-> SodimacRewrite(all_imgs[i])])

sodimac_extract_images(pg) ==
    IF pg.fetch # "ok" THEN <<>> ELSE CapImages(SodimacNormalized(pg))

(***************************************************************************)
(* Specification of the image extractors                                   *)
(***************************************************************************)
ImageStores == {"leroy_merlin", "sodimac"}

InitImages ==
    /\ RetryIdle
    /\ store \in ImageStores
    /\ IF store = "leroy_merlin"
       THEN \E pu \in LeroyProductUrls : page \in LeroyImagePages(pu)
       ELSE \E pu \in SodimacProductUrls : page \in SodimacImagePages(pu)
    /\ result = NoneValue
    /\ done = FALSE

LeroyExtractImages ==
    /\ store = "leroy_merlin"
    /\ ~done
    /\ result' = leroy_extract_images_1800(page)
    /\ done' = TRUE
    /\ UNCHANGED <<store, page, retryVars>>

SodimacExtractImages ==
    /\ store = "sodimac"
    /\ ~done
    /\ result' = sodimac_extract_images(page)
    /\ done' = TRUE
    /\ UNCHANGED <<store, page, retryVars>>

\* the HD clean-up of the Sodimac route: img_url.split(',')[0].strip(), then
\* w=76 and w=120 become w=1036.  The first comma of a URL with size
\* parameters stands between w= and h=, so h= and the tail are cut off.
SodimacCleanUrl(u) ==
    [u EXCEPT !.params = IF u.params \in {"hq", "wh"} THEN "w" ELSE u.params,
              !.tail = ""]

SodimacHdImages(raw_images) == [i \in 1..Len(raw_images) |-> SodimacCleanUrl(raw_images[i])]

\* the Sodimac route builds hd_images from the image_urls of the extractor
SodimacCleanImages ==
    /\ store = "sodimac"
    /\ done
    /\ item = NoneValue
    /\ item' = [hd_images |-> SodimacHdImages(result)]
    /\ UNCHANGED <<store, page, result, done, pc, fn, attempt, retry_delay, sleeps, calls, ret>>

NextImages == LeroyExtractImages \/ SodimacExtractImages \/ SodimacCleanImages

SpecImages == InitImages /\ [][NextImages]_vars

(***************************************************************************)
(* Claims about the image extractors                                       *)
(***************************************************************************)
ImagesDone == done /\ store \in ImageStores /\ page.fetch = "ok"

Elems(s) == {s[i] : i \in 1..Len(s)}

\* the candidate URLs of the page before any relevance test, each URL once
AllCandidates ==
    IF store = "leroy_merlin" THEN LeroyNormalized(page.candidates)
    ELSE LET ld   == SelectSeq(page.imgs, LAMBDA i : i.loc = "ld")
             tags == SelectSeq(page.imgs, LAMBDA i : i.loc # "ld")
             all  == SrcsOf(ld \o tags)
         IN Dedupe([i \in 1..Len(all) |-> SodimacRewrite(all[i])])

\* the URL contains the identifier derived from the page URL
HasIdentifier(u) ==
    IF store = "leroy_merlin" THEN LeroyRelevant(page.product_url, u)
    ELSE page.product_url.id # <<>> /\ u.fal /\ StartsWith(u.num, page.product_url.id)

\* the URL is a high-resolution one
HighRes(u) == IF store = "leroy_merlin" THEN u.hi ELSE u.params = "hq"

\* the URLs the extractor keeps before ordering and capping, in first-seen order
FilteredUrls ==
    IF store = "leroy_merlin" THEN SelectSeq(AllCandidates, HasIdentifier)
    ELSE SodimacNormalized(page)

PriorityOrder ==
    SelectSeq(FilteredUrls, HighRes) \o SelectSeq(FilteredUrls, LAMBDA u : ~HighRes(u))

\* the Sodimac URLs the extractor collects: JSON-LD images, gallery
\* container images, and <img> tags naming the product
SodimacKept ==
    {SodimacRewrite(SrcOf(page.imgs[i])) : i \in
        {j \in 1..Len(page.imgs) :
            \/ page.imgs[j].loc \in {"ld", "gal"}
            \/ /\ page.product_url.id # <<>>
               /\ SodimacMatchesId(page.product_url.id, page.imgs[j])}}

\* C9 (as stated): when at least one candidate image URL contains the
\* product identifier derived from the page URL, every returned URL contains
\* it; only when no candidate contains it is the unfiltered candidate list
\* returned.
C9_OnlyIdentifiedImages ==
    ImagesDone =>
        IF \E u \in Elems(AllCandidates) : HasIdentifier(u)
        THEN \A r \in Elems(result) : HasIdentifier(r)
        ELSE result = FirstN(AllCandidates, ImageCap)

\* C9 (amended): the Leroy Merlin extractor returns only URLs containing the
\* identifier when some candidate contains it and falls back to the
\* unfiltered list otherwise; the Sodimac extractor returns the JSON-LD
\* images, the gallery container images and the <img> tags naming the
\* product (up to the cap), whether or not they contain the identifier, and
\* returns nothing when there are none.
C9_LeroyFiltersSodimacMerges ==
    ImagesDone =>
        /\ store = "leroy_merlin" =>
              IF \E u \in Elems(AllCandidates) : HasIdentifier(u)
              THEN \A r \in Elems(result) : HasIdentifier(r)
              ELSE result = FirstN(AllCandidates, ImageCap)
        /\ store = "sodimac" =>
              /\ Elems(result) \subseteq SodimacKept
              /\ Cardinality(SodimacKept) <= ImageCap => Elems(result) = SodimacKept

\* a Leroy Merlin page where some candidates contain the identifier and
\* others do not, and the others were left out
C9_Witness ==
    /\ ImagesDone
    /\ store = "leroy_merlin"
    /\ \E u \in Elems(AllCandidates) : HasIdentifier(u)
    /\ \E u \in Elems(AllCandidates) : ~HasIdentifier(u)
    /\ result # <<>>
    /\ \A r \in Elems(result) : HasIdentifier(r)

\* C10 (as stated): the returned image list never has more than 10 entries;
\* when more than 10 filtered URLs exist the result is the first 10 of the
\* priority order (high-resolution URLs in first-seen order, then the rest
\* in first-seen order).
C10_CapAndPriorityOrder ==
    ImagesDone =>
        /\ Len(result) <= 10
        /\ Len(FilteredUrls) > 10 => result = FirstN(PriorityOrder, 10)

\* C10 (amended): the returned image list never has more than 10 entries;
\* with more than 10 filtered URLs the Leroy Merlin extractor returns the
\* first 10 of the priority order, and the Sodimac extractor returns the
\* first 10 in collection order (JSON-LD images first), without reordering
\* by resolution.
C10_CapLeroyPrioritySodimacFirstSeen ==
    ImagesDone =>
        /\ Len(result) <= 10
        /\ Len(FilteredUrls) > 10 =>
              /\ Len(result) = 10
              /\ store = "leroy_merlin" => result = FirstN(PriorityOrder, 10)
              /\ store = "sodimac" =>
                    /\ result = FirstN(FilteredUrls, 10)
                    /\ \A i \in 1..Len(page.imgs) :
                          (page.imgs[i].loc = "ld" /\ \A j \in 1..(i - 1) : page.imgs[j].loc # "ld")
                              => result[1] = SodimacRewrite(SrcOf(page.imgs[i]))

\* a Leroy Merlin page with more than 10 filtered URLs where a
\* high-resolution URL seen after the tenth one is returned
C10_Witness ==
    /\ ImagesDone
    /\ store = "leroy_merlin"
    /\ Len(FilteredUrls) > 10
    /\ \E i \in 11..Len(FilteredUrls) :
          /\ HighRes(FilteredUrls[i])
          /\ FilteredUrls[i] \in Elems(result)
    /\ \E i \in 1..10 : FilteredUrls[i] \notin Elems(result)

(***************************************************************************)
(* The shared multimodal client (shared/gemini_client.py) and the          *)
(* per-product step of the Sam's Club batch route.                         *)
(*                                                                         *)
(* A response text is a sequence of tokens: code fences, white space,      *)
(* prose, and JSON values.                                                 *)
(***************************************************************************)
\* the opening fence of a json code block and the bare fence
FenceJson == [kind |-> "fence_json"]
Fence     == [kind |-> "fence"]
Space     == [kind |-> " "]
Prose     == [kind |-> "prose"]
JsonValue(v) == [kind |-> "json", value |-> v]

\* values of the key product_image_index of a JSON object
IdxAbsent == [t |-> "absent"]
IdxNull   == [t |-> "null"]
IdxStr    == [t |-> "str"]
IdxInt(n) == [t |-> "int", v |-> n]

MaxFiles == 4

ImageIndexes == {IdxAbsent, IdxNull, IdxStr} \cup {IdxInt(n) : n \in 0..(MaxFiles + 1)}

SamsObjects == [type : {"object"}, nome_produto : {"P1"}, error : {Absent}, product_image_index : ImageIndexes]

JsonList == [type |-> "list"]

SamsTexts ==
    LET values == {JsonValue(v) : v \in SamsObjects \cup {JsonList}}
    IN {<<v>> : v \in values}
       \cup {<<FenceJson, v, Fence>> : v \in values}
       \cup {<<Space, v, Space>> : v \in values}
       \cup {<<Prose, v>> : v \in values}
       \cup {<<>>, <<Prose>>, <<FenceJson, Prose, Fence>>}

\* the fences are replaced by "" and the text is stripped
StripTokens(s) ==
    LET keep == {i \in 1..Len(s) : s[i] # Space}
    IN IF keep = {} THEN <<>>
       ELSE SubSeq(s, CHOOSE i \in keep : \A j \in keep : i <= j,
                      CHOOSE i \in keep : \A j \in keep : j <= i)

CleanJson(text) == StripTokens(RemoveAll(RemoveAll(text, FenceJson), Fence))

\* json.loads: the text must be exactly one JSON value
json_loads(clean) ==
    IF Len(clean) = 1 /\ clean[1].kind = "json" THEN Returns(clean[1].value)
    ELSE Raises(JSONDecodeError("0"))

\* json.dumps
json_dumps(v) == <<JsonValue(v)>>

\* image_paths[-1] if len(image_paths) >= 3 else image_paths[0]
FallbackImagePath(image_paths) ==
    IF Len(image_paths) >= 3 THEN image_paths[Len(image_paths)] ELSE image_paths[1]

\* the try block that picks the product image (list positions count from 1
\* here, from 0 in the code)
PickProductImage(text, image_paths) ==
    LET parsed == json_loads(CleanJson(text))
    IN IF parsed.tag = "raise" THEN FallbackImagePath(image_paths)
       ELSE IF parsed.val.type # "object" THEN FallbackImagePath(image_paths)
       ELSE LET idx == parsed.val.product_image_index
            IN IF idx.t \in {"null", "str"} THEN FallbackImagePath(image_paths)
               ELSE LET product_index == (IF idx.t = "absent" THEN 2 ELSE idx.v) - 1
                    IN IF 0 <= product_index /\ product_index < Len(image_paths)
                       THEN image_paths[product_index + 1]
                       ELSE image_paths[Len(image_paths)]

\* GeminiClient.extract_product_data; call is the outcome of generate_content
gemini_extract_product_data(image_paths, call) ==
    IF call.tag = "raise" THEN call
    ELSE Returns([gemini_response |-> call.val,
                  product_image_path |-> PickProductImage(call.val, image_paths)])

\* the message of the error record (written here without its accent)
InvalidResponse == "Resposta invalida da IA"

AttributeError == [exc |-> "AttributeError", msg |-> <<"object", "has", "no", "attribute", "get">>]

\* the route's parse of gemini_response: only json.JSONDecodeError is caught
\* there; a JSON value that is not an object makes the .get of the next line
\* raise
ParseGeminiResponse_rawtext(text) ==
    LET parsed == json_loads(CleanJson(text))
    IN IF parsed.tag = "raise"
       THEN Returns([type |-> "object", nome_produto |-> Absent, error |-> Absent, raw |-> text])
       ELSE IF parsed.val.type # "object" THEN Raises(AttributeError)
       ELSE Returns(parsed.val)
ParseGeminiResponse(text) ==
    LET parsed == json_loads(CleanJson(text))
    IN IF parsed.tag = "raise"
       THEN Returns([type |-> "object", nome_produto |-> Absent, error |-> InvalidResponse])
       ELSE IF parsed.val.type # "object" THEN Raises(AttributeError)
       ELSE Returns(parsed.val)

\* sams_club/schemas.py: the fields of BatchProductResponse without a default
RequiredFields == {"product_id", "num_images", "filenames", "prompt", "gemini_response"}

ValidationError == [exc |-> "ValidationError", msg |-> <<"prompt", "Field", "required">>]

BatchProductResponse(fields) ==
    IF RequiredFields \subseteq DOMAIN fields THEN Returns(fields) ELSE Raises(ValidationError)

\* outcomes of generate_product_images_with_gemini as the route sees them
GenOutcomes == {Returns(<<"url1", "url2">>), Returns(<<>>), Raises(Http500)}

\* one product of the batch: its files, the outcome of the extraction call,
\* the text generate_description returns, the outcome of image generation
SamsProducts ==
    [image_paths : {[i \in 1..n |-> i] : n \in 1..MaxFiles},
     call : {Returns(t) : t \in SamsTexts} \cup {Raises(Http503)},
     desc : {"D1", ""},
     gen : GenOutcomes]

\* gemini_data after the parse and the description step
GeminiData(p, res) ==
    LET parsed == ParseGeminiResponse(res.gemini_response)
    IN IF parsed.tag = "raise" THEN parsed
       ELSE Returns([descricao |-> p.desc] @@ parsed.val)

\* `if product_image_path and isinstance(gemini_data, dict) and "error" not
\* in gemini_data`; product_image_path is the path of one of the files
ShouldGenerateImages(gemini_data) == gemini_data.error = Absent

\* the first BatchProductResponse(...) of the try block
ProductEntry(p, gemini_data, urls) ==
    BatchProductResponse(
        [product_id |-> "product_1",
         num_images |-> Len(p.image_paths),
         filenames |-> p.image_paths,
         gemini_response |-> json_dumps(gemini_data),
         generated_images_urls |-> urls,
         error |-> IF gemini_data.error = Absent THEN Null ELSE gemini_data.error])

\* the BatchProductResponse(...) of the except handler
ErrorEntry(p, e) ==
    BatchProductResponse(
        [product_id |-> "product_1",
         num_images |-> Len(p.image_paths),
         filenames |-> p.image_paths,
         gemini_response |-> <<>>,
         generated_images_urls |-> <<>>,
         error |-> e.msg])

(***************************************************************************)
(* Specification of the Sam's Club per-product step                        *)
(***************************************************************************)
InitSams ==
    /\ RetryIdle
    /\ store = "sams_club"
    /\ page \in SamsProducts
    /\ result = NoneValue
    /\ done = FALSE

\* result = send_to_gemini(temp_paths)
SendToGemini ==
    /\ store = "sams_club"
    /\ result = NoneValue
    /\ result' = [stage |-> "sent", client |-> gemini_extract_product_data(page.image_paths, page.call)]
    /\ UNCHANGED <<store, page, done, retryVars>>

\* the rest of the iteration of the product loop: parse, description, image
\* generation, response entry, Excel row, and the except handler; outcome
\* is the entry appended to all_products or the exception that leaves the loop
ProcessProduct ==
    /\ store = "sams_club"
    /\ ~done
    /\ result # NoneValue
    /\ LET data     == IF result.client.tag = "raise" THEN result.client
                       ELSE GeminiData(page, result.client.val)
           reached  == data.tag = "return"
           generate == reached /\ ShouldGenerateImages(data.val)
           urls     == IF generate /\ page.gen.tag = "return" THEN page.gen.val ELSE <<>>
           entry    == IF reached THEN ProductEntry(page, data.val, urls) ELSE data
       IN result' = [stage |-> "processed",
                     client |-> result.client,
                     gemini_data |-> IF reached THEN data.val ELSE NoneValue,
                     image_generation |-> generate,
                     generated_images_urls |-> urls,
                     excel_row |-> entry.tag = "return" /\ data.val.error = Absent,
                     outcome |-> IF entry.tag = "return" THEN entry ELSE ErrorEntry(page, entry.exc)]
    /\ done' = TRUE
    /\ UNCHANGED <<store, page, retryVars>>

NextSams == SendToGemini \/ ProcessProduct

SpecSams == InitSams /\ [][NextSams]_vars

(***************************************************************************)
(* Claims about the non-JSON reply                                         *)
(***************************************************************************)
\* the extraction call returned a text that is not valid JSON
NonJsonReply ==
    /\ store = "sams_club"
    /\ page.call.tag = "return"
    /\ json_loads(CleanJson(page.call.val)).tag = "raise"

\* C4 (as stated): when the LLM returns text that is not valid JSON, the
\* result for the product holds the raw text under a fallback key with its
\* error unset, no exception is raised, and the product is not marked failed.
C4_RawTextKeptErrorUnset ==
    (NonJsonReply /\ done) =>
        /\ result.gemini_data.error = Absent
        /\ result.outcome.tag = "return"
        /\ result.outcome.val.gemini_response = page.call.val
        /\ result.outcome.val.error = Null

\* C4 (amended): when the LLM returns text that is not valid JSON, the client
\* returns the raw text under gemini_response with no error key, together
\* with the fallback product image (last file of three or more, else the
\* first); the route then replaces the text by an error record, with the
\* generated description as its only other content, and skips image
\* generation.
C4_ClientKeepsTextRouteSetsError ==
    (NonJsonReply /\ result # NoneValue) =>
        /\ result.client.tag = "return"
        /\ result.client.val.gemini_response = page.call.val
        /\ "error" \notin DOMAIN result.client.val
        /\ result.client.val.product_image_path =
              page.image_paths[IF Len(page.image_paths) >= 3 THEN Len(page.image_paths) ELSE 1]
        /\ done =>
              /\ result.gemini_data =
                    [type |-> "object", nome_produto |-> Absent,
                     error |-> InvalidResponse, descricao |-> page.desc]
              /\ ~result.image_generation
              /\ result.generated_images_urls = <<>>

\* a product whose reply was prose has been processed
C4_Witness ==
    /\ NonJsonReply
    /\ done
    /\ page.call.val = <<Prose>>
    /\ result.client.val.gemini_response = <<Prose>>
    /\ result.gemini_data.error = InvalidResponse

(***************************************************************************)
(* Double-precision arithmetic                                             *)
(*                                                                         *)
(* The batch routes keep the cost in Python floats.  A float is held here  *)
(* exactly, as the natural number value * 2^73 written in four limbs of 20 *)
(* bits, least significant first; every float the routes compute is a      *)
(* multiple of 2^-73.  An operation computes the exact result and rounds   *)
(* it to 53 significant bits, ties to even, as IEEE 754 does.              *)
(***************************************************************************)
LimbBase == 2^20

\* significant bits of a Python float
MantissaBits == 53

BigZero == <<0, 0, 0, 0>>

BigAdd(a, b) ==
    LET s1 == a[1] + b[1]
        s2 == a[2] + b[2] + s1 \div LimbBase
        s3 == a[3] + b[3] + s2 \div LimbBase
        s4 == a[4] + b[4] + s3 \div LimbBase
    IN <<s1 % LimbBase, s2 % LimbBase, s3 % LimbBase, s4>>

\* product with a token count u < 2^10
BigMulInt(a, u) ==
    LET p1 == a[1] * u
        p2 == a[2] * u + p1 \div LimbBase
        p3 == a[3] * u + p2 \div LimbBase
        p4 == a[4] * u + p3 \div LimbBase
    IN <<p1 % LimbBase, p2 % LimbBase, p3 % LimbBase, p4>>

\* a - b for a >= b
BigSub(a, b) ==
    LET d1 == a[1] - b[1]
        d2 == a[2] - b[2] - (IF d1 < 0 THEN 1 ELSE 0)
        d3 == a[3] - b[3] - (IF d2 < 0 THEN 1 ELSE 0)
        d4 == a[4] - b[4] - (IF d3 < 0 THEN 1 ELSE 0)
    IN <<d1 % LimbBase, d2 % LimbBase, d3 % LimbBase, d4>>

BigLess(a, b) ==
    \E i \in 1..4 : a[i] < b[i] /\ \A j \in (i + 1)..4 : a[j] = b[j]

\* number of bits of a limb, and of a number
LimbLen(x) == CHOOSE k \in 0..30 : x < 2^k /\ (k = 0 \/ x >= 2^(k - 1))
BitLen(a) ==
    IF a = BigZero THEN 0
    ELSE LET t == CHOOSE i \in 1..4 : a[i] # 0 /\ \A j \in (i + 1)..4 : a[j] = 0
         IN 20 * (t - 1) + LimbLen(a[t])

BigPow2(d) == [i \in 1..4 |-> IF i = d \div 20 + 1 THEN 2^(d % 20) ELSE 0]

\* bit d of a, counted from 0
BigBit(a, d) == (a[d \div 20 + 1] \div 2^(d % 20)) % 2

\* a mod 2^d, and a with its d low bits cleared
BigLow(a, d) ==
    [i \in 1..4 |-> IF i < d \div 20 + 1 THEN a[i]
                    ELSE IF i = d \div 20 + 1 THEN a[i] % 2^(d % 20)
                    ELSE 0]
BigHigh(a, d) == [i \in 1..4 |-> a[i] - BigLow(a, d)[i]]

\* round to MantissaBits significant bits, ties to even
RoundToDouble(a) ==
    LET d == BitLen(a) - MantissaBits
    IN IF d <= 0 THEN a
       ELSE LET low  == BigLow(a, d)
                half == BigPow2(d - 1)
                up   == BigLess(half, low) \/ (low = half /\ BigBit(a, d) = 1)
            IN IF up THEN BigAdd(BigHigh(a, d), BigPow2(d)) ELSE BigHigh(a, d)

\* x + y and x * u on floats
FloatAdd(x, y) == RoundToDouble(BigAdd(x, y))
FloatMulInt(x, u) == RoundToDouble(BigMulInt(x, u))

\* PRICE_IN = (0.10 / 1_000_000) * 5.10 = 0x1.11cdddc3eafbep-21 and
\* PRICE_OUT = (0.40 / 1_000_000) * 5.10 = 0x1.11cdddc3eafbep-19 as floats
PRICE_IN_float == <<962494, 908739, 4380, 0>>
PRICE_OUT_float == <<704248, 489231, 17523, 0>>

\* c_in + c_out of one item
FloatItemCost(usage) ==
    FloatAdd(FloatMulInt(PRICE_IN_float, usage.input), FloatMulInt(PRICE_OUT_float, usage.output))

(***************************************************************************)
(* The batch routes: sodimac/api/routes.py and decathlon/api/routes.py     *)
(* (process_product_urls) and sams_club/api/routes.py (process_batch).     *)
(* page holds the request: what each call made for an item will produce,   *)
(* and whether the log write and the Excel report will succeed.  result    *)
(* holds the locals of the handler.                                        *)
(***************************************************************************)
BatchRoutes == {"sodimac", "decathlon", "sams_club"}

MaxItems == 2

\* an error field: None, or a message
NoError == [none |-> TRUE]
ErrorMsg(msg) == [none |-> FALSE, msg |-> msg]

\* token counts the API reports for the calls made for one item
BatchUsages == {[input |-> 0, output |-> 0], [input |-> 7, output |-> 3], [input |-> 120, output |-> 45]}

\* the description call of one item: whether it failed, and the tokens the
\* API reported for it
LlmOutcomes == [failed : BOOLEAN, spent : BatchUsages]

\* sodimac extract_product_data: the data of the page, the error dictionary
\* of a failed download, or an exception other than RequestException
SodimacInfos ==
    {[raised |-> FALSE, titulo |-> "T", preco |-> "R$ 10,00", error |-> NoError],
     [raised |-> FALSE, titulo |-> "", preco |-> Null, error |-> ErrorMsg(FetchError("timeout"))],
     [raised |-> TRUE, titulo |-> "", preco |-> Null, error |-> ErrorMsg(<<"parser", "failed">>)]}

\* decathlon extract_product_data: success, no product data, failed download
DecathlonInfos ==
    {[titulo |-> "T", success |-> TRUE, error |-> <<>>],
     [titulo |-> "", success |-> FALSE, error |-> <<"Dados", "do", "produto", "nao", "encontrados">>],
     [titulo |-> Absent, success |-> FALSE, error |-> FetchError("http_404")]}

\* the products of a Sam's Club batch
SamsBatchProducts ==
    [image_paths : {<<1, 2, 3>>},
     call : {Returns(<<JsonValue([type |-> "object", nome_produto |-> "P1", error |-> Absent,
                                  product_image_index |-> IdxInt(3)])>>),
             Returns(<<Prose>>), Raises(Http503)},
     desc : {"D1"},
     gen : GenOutcomes]

BatchItems(route) ==
    IF route = "sodimac" THEN [p_info : SodimacInfos, llm : LlmOutcomes]
    ELSE IF route = "decathlon" THEN [p_info : DecathlonInfos, llm : LlmOutcomes]
    ELSE [product : SamsBatchProducts]

\* outcome of db.add/db.commit and of generate_standard_excel
StepOutcomes == {"ok", "raise"}

BatchRequests(route) ==
    [items : UNION {[1..n -> BatchItems(route)] : n \in 1..MaxItems},
     db : StepOutcomes,
     excel : StepOutcomes]

\* all_products, excel_data and the accumulators before the loop; llm_calls
\* records the URLs for which extract_description_from_url has been called
BatchStart_carried ==
    [i |-> 0, all_products |-> <<>>, excel_data |-> <<>>,
     total_cost_batch_brl |-> PRICE_IN_float, total_tokens_batch |-> 1,
     llm_calls |-> {}, aborted |-> NoError, log |-> "none", response |-> NoneValue]
BatchStart ==
    [i |-> 0, all_products |-> <<>>, excel_data |-> <<>>,
     total_cost_batch_brl |-> BigZero, total_tokens_batch |-> 0,
     llm_calls |-> {}, aborted |-> NoError, log |-> "none", response |-> NoneValue]

\* value of gemini_client.extract_description_from_url in the Sodimac route
SodimacGeminiRes(llm) ==
    IF llm.failed THEN ErrorResult("desc", Http500)
    ELSE [descricao |-> "D1", usage |-> llm.spent]

\* the entry of the except block of the URL routes
ErrorProduct(url, msg) ==
    [url_original |-> url, titulo |-> "Erro", descricao |-> "",
     input_tokens |-> 0, output_tokens |-> 0, total_cost_brl |-> 0,
     error |-> ErrorMsg(msg)]

\* one iteration of the Sodimac loop; cost (a float) and tokens are what the
\* iteration adds to the accumulators, row whether an Excel row is appended
SodimacIteration(url, it) ==
    IF it.p_info.raised
    THEN [entry |-> ErrorProduct(url, it.p_info.error.msg),
          cost |-> BigZero, tokens |-> 0, row |-> FALSE, called |-> FALSE]
    ELSE LET c == ItemCost(SodimacGeminiRes(it.llm))
         IN [entry |-> [url_original |-> url, titulo |-> it.p_info.titulo,
                        descricao |-> c.descricao,
                        input_tokens |-> c.input_tokens, output_tokens |-> c.output_tokens,
                        total_cost_brl |-> c.item_cost,
                        error |-> it.p_info.error],
             cost |-> FloatItemCost([input |-> c.input_tokens, output |-> c.output_tokens]),
             tokens |-> c.input_tokens + c.output_tokens,
             row |-> TRUE, called |-> TRUE]

\* the Leroy Merlin client returns the description as a string, and
\* gemini_res.get raises on it
StrHasNoGet == <<"str", "object", "has", "no", "attribute", "get">>

\* one iteration of the Decathlon loop
DecathlonIteration(url, it) ==
    IF ~it.p_info.success
    THEN [entry |-> [ErrorProduct(url, it.p_info.error) EXCEPT !.titulo = Null],
          cost |-> BigZero, tokens |-> 0, row |-> FALSE, called |-> FALSE]
    ELSE [entry |-> [ErrorProduct(url, StrHasNoGet) EXCEPT !.titulo = Null],
          cost |-> BigZero, tokens |-> 0, row |-> FALSE, called |-> TRUE]

\* one iteration of the Sam's Club loop: the entry appended to
\* all_products, or the exception that leaves the loop
SamsIteration(p) ==
    LET client   == gemini_extract_product_data(p.image_paths, p.call)
        data     == IF client.tag = "raise" THEN client ELSE GeminiData(p, client.val)
        reached  == data.tag = "return"
        generate == reached /\ ShouldGenerateImages(data.val)
        urls     == IF generate /\ p.gen.tag = "return" THEN p.gen.val ELSE <<>>
        entry    == IF reached THEN ProductEntry(p, data.val, urls) ELSE data
    IN IF entry.tag = "return" THEN entry ELSE ErrorEntry(p, entry.exc)

InitBatch ==
    /\ RetryIdle
    /\ store \in BatchRoutes
    /\ page \in BatchRequests(store)
    /\ result = BatchStart
    /\ done = FALSE

\* one iteration of `for url in request.urls`
ProcessUrl ==
    /\ store \in {"sodimac", "decathlon"}
    /\ ~done
    /\ result.i < Len(page.items)
    /\ LET url == result.i + 1
           r   == IF store = "sodimac" THEN SodimacIteration(url, page.items[url])
                  ELSE DecathlonIteration(url, page.items[url])
       IN result' = [result EXCEPT
                        !.i = url,
                        !.all_products = Append(@, r.entry),
                        !.excel_data = IF r.row THEN Append(@, r.entry) ELSE @,
                        !.total_cost_batch_brl = FloatAdd(@, r.cost),
                        !.total_tokens_batch = @ + r.tokens,
                        !.llm_calls = IF r.called THEN @ \cup {url} ELSE @]
    /\ UNCHANGED <<store, page, done, retryVars>>

\* one iteration of `for product_id, product_files in product_groups.items()`
ProcessBatchProduct ==
    /\ store = "sams_club"
    /\ ~done
    /\ result.i < Len(page.items)
    /\ LET k == result.i + 1
           r == SamsIteration(page.items[k].product)
       IN IF r.tag = "return"
          THEN /\ result' = [result EXCEPT
                                !.i = k,
                                !.all_products = Append(@, [r.val EXCEPT !.product_id = k]),
                                !.excel_data = IF r.val.error = Null THEN Append(@, r.val) ELSE @]
               /\ done' = FALSE
          ELSE /\ result' = [result EXCEPT !.i = k, !.aborted = ErrorMsg(r.exc.msg)]
               /\ done' = TRUE
    /\ UNCHANGED <<store, page, retryVars>>

\* `except Exception as db_err` around db.add and db.commit: the outcome of
\* the log write does not leave the try block
LogWriteContained_onlyok(db) == db = "ok"
LogWriteContained(db) == db \in {"ok", "raise"}

\* after the loop: the usage log (URL routes), the Excel report, the response
FinishBatch ==
    /\ store \in BatchRoutes
    /\ ~done
    /\ result.i = Len(page.items)
    /\ LET logged == store # "sams_club" /\ result.all_products # <<>>
       IN IF logged /\ ~LogWriteContained(page.db)
          THEN result' = [result EXCEPT !.log = "raised",
                                        !.aborted = ErrorMsg(<<"database", "error">>)]
          ELSE result' = [result EXCEPT
                     !.log = IF ~logged THEN "none"
                             ELSE IF page.db = "ok" THEN "saved" ELSE "rolled_back",
                     !.response =
                         [products |-> result.all_products,
                          total_products |-> Len(result.all_products),
                          excel_download_url |-> result.excel_data # <<>> /\ page.excel = "ok",
                          total_cost_batch_brl |-> result.total_cost_batch_brl]]
    /\ done' = TRUE
    /\ UNCHANGED <<store, page, retryVars>>

NextBatch == ProcessUrl \/ ProcessBatchProduct \/ FinishBatch

SpecBatch == InitBatch /\ [][NextBatch]_vars

(***************************************************************************)
(* Claims about the batch routes                                           *)
(***************************************************************************)
\* the item meets a fetch error, an LLM error or an image-generation error
ItemFails(it) ==
    IF store = "sodimac" THEN it.p_info.raised \/ it.p_info.error # NoError \/ it.llm.failed
    ELSE IF store = "decathlon" THEN ~it.p_info.success \/ it.llm.failed
    ELSE it.product.call.tag = "raise" \/ it.product.gen.tag = "raise"

\* C11: for every batch and every combination of per-product failures the
\* endpoint returns a response with exactly one entry per input product, in
\* input order, and the entry of a failing product has its error set; no
\* failure aborts the request.
C11_OneEntryPerProduct ==
    (store \in BatchRoutes /\ done) =>
        /\ result.aborted = NoError
        /\ result.response # NoneValue
        /\ Len(result.response.products) = Len(page.items)
        /\ \A k \in 1..Len(page.items) :
              /\ store # "sams_club" => result.response.products[k].url_original = k
              /\ store = "sams_club" => result.response.products[k].product_id = k
              /\ ItemFails(page.items[k]) =>
                    result.response.products[k].error # (IF store = "sams_club" THEN Null ELSE NoError)

(***************************************************************************)
(* Image synthesis pipeline: generate_product_images_with_gemini           *)
(*                                                                         *)
(* result holds the locals of one call; every external call (generation,   *)
(* validation, upload, file system) answers with an outcome chosen from a  *)
(* small set.  Stage 0 is the base image, stages 1..3 are the variations.  *)
(***************************************************************************)
\* max_retries passed to generate_with_retry by both call sites
pipeline_max_retries == 3

\* angle of each entry of the list variations
Variations == <<"side_view", "perspective_view", "lifestyle">>

StageName(s) == IF s = 0 THEN "front_view" ELSE Variations[s]

\* the product image handed to the pipeline and what the crop step does to it
PipelineInputs ==
    [format : {"jpeg", "mpo", "unreadable"}, crop : {"none", "saved", "save_failed"}]

\* what one iteration of the loop of generate_with_retry meets
AttemptOutcomes ==
    {"api_error",       \* generate_content raises
     "no_image",        \* no candidate payload of at least MIN_BYTES_THRESHOLD bytes
     "zero_sizes",      \* every payload has size 0: the diagnostic dump is written
     "invalid_image",   \* the payload does not open as an image
     "approved",        \* validation approves with confidence >= 70
     "rejected",        \* validation rejects, or approves with confidence < 70
     "bad_validation",  \* the validation reply lacks approved or confidence
     "validator_failed"}  \* the validation call raises or its reply is not JSON

\* the image bytes produced by attempt k of stage s
ImageData(s, k) == [stage |-> s, attempt |-> k]

\* the value of {"public_urls": [], "num_generated": 0}
FailedResult == [public_urls |-> <<>>, num_generated |-> 0]

PipelineStart ==
    [pos |-> "start", stage |-> 0, attempt |-> 0, last |-> "none",
     in_flight |-> {}, input_image |-> NoneValue,
     image_data |-> NoneValue, success |-> FALSE,
     base_image_data |-> NoneValue, base_image |-> NoneValue,
     invoked |-> [s \in 0..3 |-> 0],
     files |-> {}, temp_files |-> <<>>,
     uploaded |-> {}, public_urls |-> <<>>,
     ret |-> NoneValue]

\* generate_with_retry is entered for stage s with the given input image
Invoke(r, s, input) ==
    [r EXCEPT !.pos = "generate", !.stage = s, !.attempt = 0, !.last = "none",
              !.input_image = input, !.image_data = NoneValue, !.success = FALSE,
              !.invoked = [r.invoked EXCEPT ![s] = @ + 1]]

\* the except branch and the rejection branch retry while attempt < max_retries - 1
RetriesLeft(attempt0) == attempt0 < pipeline_max_retries - 1

\* a rejected candidate is returned on the last attempt
AcceptsRejected_never(attempt0) == FALSE
AcceptsRejected(attempt0) == ~RetriesLeft(attempt0)

\* what validate_generated_image returns when its call raises or its reply
\* does not parse
ValidatorFallback == [approved |-> TRUE, confidence |-> 50]

\* `if validation['approved'] and validation['confidence'] >= 70`
Validated(validation) == validation.approved /\ validation.confidence >= 70

\* the value of (None, False)
NoImage == [image_data |-> NoneValue, success |-> FALSE]

\* One iteration of the loop of generate_with_retry, attempt0 counted from 0:
\* the value returned (NoneValue when the iteration ends in continue) and the
\* temporary files the iteration leaves on disk.
GenerateAttempt(s, attempt0, o) ==
    LET img == ImageData(s, attempt0 + 1)
        Continue == NoneValue
        \* the except branch
        Except == IF RetriesLeft(attempt0) THEN Continue ELSE NoImage
        Approved == [image_data |-> img, success |-> TRUE]
        Rejected == IF AcceptsRejected(attempt0)
                    THEN [image_data |-> img, success |-> FALSE]
                    ELSE Continue
    IN  CASE o = "api_error"      -> [ret |-> Except, left |-> {}]
          [] o = "no_image"       -> [ret |-> Continue, left |-> {}]
          [] o = "zero_sizes"     -> [ret |-> Continue, left |-> {"gemini_dump_"}]
          [] o = "invalid_image"  -> [ret |-> Continue, left |-> {}]
          [] o = "approved"       -> [ret |-> Approved, left |-> {}]
          [] o = "rejected"       -> [ret |-> Rejected, left |-> {}]
          [] o = "bad_validation" -> [ret |-> Except, left |-> {"attempt_png"}]
          [] o = "validator_failed" ->
                 [ret |-> IF Validated(ValidatorFallback) THEN Approved ELSE Rejected,
                  left |-> {}]

InitPipeline ==
    /\ RetryIdle
    /\ store = "pipeline"
    /\ page \in PipelineInputs
    /\ result = PipelineStart
    /\ done = FALSE

\* the prologue: conversion, opening the input, detection and crop, then the
\* base stage is entered
StartPipeline ==
    /\ store = "pipeline"
    /\ result.pos = "start"
    /\ LET converted == IF page.format = "mpo" THEN {"converted_"} ELSE {}
           crop == IF page.crop = "none" THEN {} ELSE {"crop"}
           tracked == (IF page.format = "mpo" THEN <<"converted_">> ELSE <<>>)
                      \o (IF page.crop = "saved" THEN <<"crop">> ELSE <<>>)
       IN  IF page.format = "unreadable"
           THEN /\ result' = [result EXCEPT !.pos = "raised"]
                /\ done' = TRUE
           ELSE /\ result' = Invoke([result EXCEPT !.files = converted \cup crop,
                                                   !.temp_files = tracked],
                                    0, "original_image")
                /\ done' = FALSE
    /\ UNCHANGED <<store, page, retryVars>>

\* model.generate_content([prompt, input_image]) is called
IssueGeneration ==
    /\ store = "pipeline"
    /\ result.pos = "generate"
    /\ result.attempt < pipeline_max_retries
    /\ result' = [result EXCEPT !.pos = "waiting",
                                !.in_flight = @ \cup {<<result.stage, result.attempt + 1>>}]
    /\ UNCHANGED <<store, page, done, retryVars>>

\* the call answers and the rest of the iteration runs; a continue on the
\* last iteration of `for attempt in range(max_retries)` leaves the loop and
\* returns (None, False)
AttemptReturns ==
    /\ store = "pipeline"
    /\ result.pos = "waiting"
    /\ \E o \in AttemptOutcomes :
          LET g == GenerateAttempt(result.stage, result.attempt, o)
              more == result.attempt + 1 < pipeline_max_retries
              value == IF g.ret = NoneValue THEN NoImage ELSE g.ret
          IN  result' = [result EXCEPT
                  !.in_flight = {},
                  !.attempt = @ + 1,
                  !.last = o,
                  !.files = @ \cup g.left,
                  !.pos = IF g.ret = NoneValue /\ more THEN "generate" ELSE "stage_returned",
                  !.image_data = value.image_data,
                  !.success = value.success]
    /\ UNCHANGED <<store, page, done, retryVars>>

\* `if not base_image_data`
BaseFailed_never(r) == FALSE
BaseFailed(r) == r.image_data = NoneValue

\* what the except branch of the base stage returns
BaseExceptResult(r) == FailedResult

\* the base stage has returned: give up, or save, upload and reopen the base
\* image and enter the first variation
AfterBase ==
    /\ store = "pipeline"
    /\ result.pos = "stage_returned"
    /\ result.stage = 0
    /\ IF BaseFailed(result)
       THEN /\ result' = [result EXCEPT !.pos = "returned", !.ret = FailedResult]
            /\ done' = TRUE
       ELSE \E u \in {"ok", "upload_raises", "open_raises"} :
               LET saved == [result EXCEPT
                                !.base_image_data = result.image_data,
                                !.files = @ \cup {"front_view"},
                                !.temp_files = Append(@, "front_view")]
                   sent == [saved EXCEPT
                                !.uploaded = @ \cup {"front_view"},
                                !.public_urls = Append(@, "front_view")]
               IN  CASE u = "ok" ->
                          /\ result' = Invoke([sent EXCEPT !.base_image = result.image_data],
                                              1, "base_image")
                          /\ done' = FALSE
                     [] u = "upload_raises" ->
                          /\ result' = [saved EXCEPT !.pos = "returned",
                                                     !.ret = BaseExceptResult(saved)]
                          /\ done' = TRUE
                     [] u = "open_raises" ->
                          /\ result' = [sent EXCEPT !.pos = "returned",
                                                    !.ret = BaseExceptResult(sent)]
                          /\ done' = TRUE
    /\ UNCHANGED <<store, page, retryVars>>

\* where the loop over variations goes after variation s
NextVariation_break(r, failed) ==
    IF r.stage < Len(Variations) /\ ~failed
    THEN Invoke(r, r.stage + 1, "base_image")
    ELSE [r EXCEPT !.pos = "cleanup"]
NextVariation(r, failed) ==
    IF r.stage < Len(Variations)
    THEN Invoke(r, r.stage + 1, "base_image")
    ELSE [r EXCEPT !.pos = "cleanup"]

\* a variation has returned: skip it, or save and upload it; then the next
\* variation, or the end of the loop
AfterVariation ==
    /\ store = "pipeline"
    /\ result.pos = "stage_returned"
    /\ result.stage >= 1
    /\ IF result.image_data = NoneValue
       THEN result' = NextVariation(result, TRUE)
       ELSE \E u \in {"ok", "upload_raises"} :
               LET name == StageName(result.stage)
                   saved == [result EXCEPT !.files = @ \cup {name},
                                           !.temp_files = Append(@, name)]
                   sent == [saved EXCEPT !.uploaded = @ \cup {name},
                                         !.public_urls = Append(@, name)]
               IN  result' = IF u = "ok" THEN NextVariation(sent, FALSE)
                             ELSE NextVariation(saved, TRUE)
    /\ UNCHANGED <<store, page, done, retryVars>>

\* the files the cleanup loop removes
CleanedFiles(r) == {r.temp_files[i] : i \in 1..Len(r.temp_files)}

\* the images are closed, the tracked temporary files removed, the result returned
CleanupAndReturn ==
    /\ store = "pipeline"
    /\ result.pos = "cleanup"
    /\ result' = [result EXCEPT
                     !.pos = "returned",
                     !.files = @ \ CleanedFiles(result),
                     !.ret = [public_urls |-> result.public_urls,
                              num_generated |-> Len(result.public_urls)]]
    /\ done' = TRUE
    /\ UNCHANGED <<store, page, retryVars>>

NextPipeline ==
    \/ StartPipeline
    \/ IssueGeneration
    \/ AttemptReturns
    \/ AfterBase
    \/ AfterVariation
    \/ CleanupAndReturn

SpecPipeline == InitPipeline /\ [][NextPipeline]_vars

(***************************************************************************)
(* Claims about the image synthesis pipeline                               *)
(***************************************************************************)
IsPrefix(s, t) == Len(s) <= Len(t) /\ \A i \in 1..Len(s) : s[i] = t[i]

\* generate_with_retry has been entered for some variation
VariantInvoked == \E s \in 1..Len(Variations) : result.invoked[s] > 0

\* C12: the stages run strictly in order with at most one generation call in
\* flight; no variation call is issued before the base stage has returned a
\* base image, every variation is generated from that base image, and when
\* the base stage returns no image the call ends with the failed result
\* having issued no variation call.
C12_StagesInOrder ==
    /\ [](store = "pipeline" =>
            /\ Cardinality(result.in_flight) <= 1
            /\ \A c \in result.in_flight : c[1] = result.stage
            /\ \A s \in 1..Len(Variations) :
                  result.invoked[s] > 0 => result.invoked[s - 1] > 0 /\ result.stage >= s
            /\ VariantInvoked =>
                  /\ result.base_image_data # NoneValue
                  /\ result.base_image_data.stage = 0
                  /\ result.base_image = result.base_image_data
            /\ (result.stage >= 1 /\ result.pos \in {"generate", "waiting"}) =>
                  result.input_image = "base_image"
            /\ (result.stage = 0 /\ result.pos \in {"generate", "waiting"}) =>
                  result.input_image = "original_image")
    /\ [][(store = "pipeline" /\ result.pos = "stage_returned" /\ result.stage = 0
            /\ result.image_data = NoneValue) =>
              (/\ result'.pos = "returned"
               /\ result'.ret = FailedResult
               /\ \A s \in 1..Len(Variations) : result'.invoked[s] = 0)]_vars
    /\ [][store = "pipeline" => result'.stage >= result.stage]_vars

C12_Witness ==
    /\ store = "pipeline"
    /\ result.pos = "waiting"
    /\ result.stage = 3
    /\ result.in_flight = {<<3, 2>>}
    /\ result.base_image = ImageData(0, 3)

\* C13: a generation stage makes at most max_retries (3) generation
\* attempts, and when the last of them is rejected by the fidelity
\* validation the stage returns that last candidate flagged as not
\* validated, and the candidate goes on to the save-and-upload step instead
\* of the stage failing.
C13_BoundedAttemptsLastAccepted ==
    /\ [](store = "pipeline" =>
            /\ result.attempt <= pipeline_max_retries
            /\ \A c \in result.in_flight : c[2] <= pipeline_max_retries
            /\ (result.pos = "stage_returned" /\ result.last = "rejected") =>
                  /\ result.attempt = pipeline_max_retries
                  /\ result.image_data = ImageData(result.stage, pipeline_max_retries)
                  /\ result.success = FALSE)
    /\ [][(store = "pipeline" /\ result.pos = "stage_returned" /\ result.last = "rejected") =>
              /\ StageName(result.stage) \in result'.files
              /\ StageName(result.stage) \in Elems(result'.temp_files)
              /\ result.stage = 0 => result'.base_image_data = result.image_data]_vars

C13_Witness ==
    /\ store = "pipeline"
    /\ result.pos = "stage_returned"
    /\ result.stage = 2
    /\ result.last = "rejected"
    /\ result.image_data = ImageData(2, 3)
    /\ "front_view" \in result.uploaded

\* the base image was generated, uploaded and reopened
BaseSucceeded == result.base_image # NoneValue

\* C14: whenever the base stage succeeded, each of the three variations is
\* attempted exactly once per call whatever the outcome of the others: a
\* variation that fails to generate or to upload does not stop the later
\* ones and does not remove the URLs already collected.
C14_EachVariantOnce ==
    /\ [](store = "pipeline" =>
            /\ \A s \in 1..Len(Variations) : result.invoked[s] <= 1
            /\ (BaseSucceeded /\ result.pos \in {"cleanup", "returned"}) =>
                  \A s \in 1..Len(Variations) : result.invoked[s] = 1
            /\ (BaseSucceeded /\ result.pos = "returned") =>
                  /\ result.ret.public_urls = result.public_urls
                  /\ Elems(result.public_urls) = result.uploaded)
    /\ [][store = "pipeline" => IsPrefix(result.public_urls, result'.public_urls)]_vars

C14_Witness ==
    /\ store = "pipeline"
    /\ result.pos = "returned"
    /\ result.ret # NoneValue
    /\ result.ret.public_urls = <<"front_view", "lifestyle">>
    /\ \A s \in 1..Len(Variations) : result.invoked[s] = 1

\* C15: on every exit path of the call, every temporary file created during
\* the call has been deleted when the call returns.
C15_NoTemporaryFileLeft ==
    (store = "pipeline" /\ done) => result.files = {}

\* C16: every image uploaded during the call is in the returned public_urls,
\* num_generated is their count, whichever later step or stage fails, and no
\* stage failure leaves the call as an exception.
C16_ResultIncludesUploaded ==
    (store = "pipeline" /\ done) =>
        /\ result.pos = "raised" => result.invoked[0] = 0
        /\ result.pos = "returned" =>
              /\ Elems(result.ret.public_urls) = result.uploaded
              /\ result.ret.num_generated = Cardinality(result.uploaded)

(***************************************************************************)
(* Claims about the cost accounting, the usage log and the fetch boundary  *)
(***************************************************************************)
\* the loop of a URL route as a function of the list of items: the
\* accumulators after the last item, starting from the values in acc
RECURSIVE Accumulate(_, _, _)
Accumulate(route, items, acc) ==
    IF items = <<>> THEN acc
    ELSE LET r == IF route = "sodimac" THEN SodimacIteration(1, Head(items))
                  ELSE DecathlonIteration(1, Head(items))
         IN Accumulate(route, Tail(items),
                       [total_cost_batch_brl |-> FloatAdd(acc.total_cost_batch_brl, r.cost),
                        total_tokens_batch |-> acc.total_tokens_batch + r.tokens])

\* the totals of a request made of these items
BatchTotals(route, items) ==
    Accumulate(route, items, [total_cost_batch_brl |-> BigZero, total_tokens_batch |-> 0])

UrlBatchDone == store \in {"sodimac", "decathlon"} /\ done

\* the totals of the request, and of the request listing its items twice
Once == BatchTotals(store, page.items)
Twice == BatchTotals(store, page.items \o page.items)

\* |a - b|
BigDistance(a, b) == IF BigLess(a, b) THEN BigSub(b, a) ELSE BigSub(a, b)

LlmTokens(route, it) ==
    LET called == IF route = "sodimac" THEN ~it.p_info.raised ELSE it.p_info.success
    IN IF called /\ ~it.llm.failed THEN it.llm.spent.input + it.llm.spent.output ELSE 0

RECURSIVE SpentTokens(_, _)
SpentTokens(route, items) ==
    IF items = <<>> THEN 0
    ELSE LlmTokens(route, Head(items)) + SpentTokens(route, Tail(items))

\* C18: every LLM call made while processing a batch, including the calls
\* made for items that end with an error, contributes its token usage to
\* the total tokens and the total cost of the batch.
C18_EveryCallCounted ==
    UrlBatchDone =>
        /\ result.total_tokens_batch = SpentTokens(store, page.items)
        /\ SpentTokens(store, page.items) > 0 => result.total_cost_batch_brl # BigZero

\* the response of the request as a function of its items and of the
\* outcome of the Excel report alone
ResponseOf(route, request) ==
    LET n == Len(request.items)
        step(k) == IF route = "sodimac" THEN SodimacIteration(k, request.items[k])
                   ELSE DecathlonIteration(k, request.items[k])
    IN [products |-> [k \in 1..n |-> step(k).entry],
        total_products |-> n,
        excel_download_url |-> (\E k \in 1..n : step(k).row) /\ request.excel = "ok",
        total_cost_batch_brl |-> BatchTotals(route, request.items).total_cost_batch_brl]

\* C19: a failure to write the usage log never changes or aborts the batch
\* response: the endpoint returns the products, total_products and
\* total_cost_batch_brl it returns when the log write succeeds.
C19_LogFailureKeepsResponse ==
    UrlBatchDone =>
        /\ result.aborted = NoError
        /\ result.response = ResponseOf(store, [items |-> page.items, excel |-> page.excel])

C19_Witness ==
    /\ UrlBatchDone
    /\ store = "sodimac"
    /\ page.db = "raise"
    /\ result.log = "rolled_back"
    /\ result.response # NoneValue
    /\ result.response.total_products = 2
    /\ result.response.total_cost_batch_brl # BigZero

\* the call left extract_product_data as an exception
RaisedPastBoundary(r) == "tag" \in DOMAIN r /\ r.tag = "raise"

\* the result says the extraction succeeded: its success flag, or for the
\* Sodimac dictionary the absence of an error
ReportedSuccessful(r) ==
    IF "success" \in DOMAIN r THEN r.success ELSE "error" \notin DOMAIN r

\* C20: for any fetch outcome and any HTML content extract_product_data
\* never raises past its boundary, and a failed fetch yields a result that
\* carries the error message and is not reported as successful.
C20_NeverRaisesPastBoundary ==
    (store \in BoundaryStores /\ done) =>
        /\ ~RaisedPastBoundary(result)
        /\ page.fetch # "ok" =>
              /\ "error" \in DOMAIN result
              /\ result.error = FetchError(page.fetch)
              /\ ~ReportedSuccessful(result)

(***************************************************************************)
(* Further claims about the extractors                                     *)
(***************************************************************************)
\* the currency-looking substrings of the document, in document order
CurrencyLooking(pg) == TextsOf(SelectSeq(pg.occ, LAMBDA o : MatchesAnyPrice(o.text)))

\* the page has price candidates and every one of them is excluded as an
\* installment price
AllCandidatesExcluded(pg) ==
    /\ CurrencyLooking(pg) # <<>>
    /\ \A i \in 1..Len(CurrencyLooking(pg)) : is_installment_price(pg, CurrencyLooking(pg)[i])

\* C21: when every price candidate on a page is excluded as an installment
\* price, the price extractor returns the first currency-looking substring
\* of the document rather than an empty price.
C21_FallbackToFirstCurrencyString ==
    (done /\ store = "sodimac" /\ AllCandidatesExcluded(page)) =>
        /\ result # NoPrice
        /\ result = Head(CurrencyLooking(page))


\* the list of image URLs has no URL twice
NoUrlTwice(urls) == \A i, j \in 1..Len(urls) : urls[i] = urls[j] => i = j

\* the Sodimac route has built the list it delivers
SodimacDelivered == store = "sodimac" /\ done /\ item # NoneValue

\* C22 (as stated): the image URL list delivered for a product contains no
\* URL twice: neither the list the extractors return nor the list the
\* Sodimac route delivers after its HD clean-up.
C22_NoUrlDeliveredTwice ==
    /\ ImagesDone => NoUrlTwice(result)
    /\ SodimacDelivered => NoUrlTwice(item.hd_images)

\* C22, the part that holds: the list the extractors return has no URL twice
C22_ExtractorListHasNoUrlTwice == ImagesDone => NoUrlTwice(result)

(***************************************************************************)
(* Brand and barcode extraction                                            *)
(* A page is read as the sequence of its scripts in document order.  Each  *)
(*   kind   "product" (a JSON-LD block whose '@type' is the product type), *)
(*          "other" (a JSON-LD block of another type) or "html" (any       *)
(*          other part of the page, such as a carousel of other products)  *)
(*   key    the one key of interest the script holds, "none" if it has     *)
(*          none; "upc" stands inside the variants array                   *)
(*   form   "string" ("key":"val"), "object" ("brand":{"@type":"Brand",    *)
(*          "name":"val"}) or "escaped" (\"ean\":\"val\")                  *)
(***************************************************************************)
MaxBlocks == 2

BrandNames == {"Toyama", "Rival"}
EanValues  == {"7891", "7892"}

BlockFields ==
    {[key |-> "none", form |-> "string", val |-> ""]}
    \cup [key : {"brand"}, form : {"string", "object"}, val : BrandNames]
    \cup [key : {"brand"}, form : {"string"}, val : {"null"}]
    \cup [key : {"ean", "gtin13", "upc"}, form : {"string"}, val : EanValues \cup {"null"}]
    \cup [key : {"ean"}, form : {"escaped"}, val : {"7891"}]

BrandBlocks == [kind : {"product", "other", "html"}, field : BlockFields]

BrandPages == [html : BoundedSeq(BrandBlocks, MaxBlocks)]

BrandNotFound == "Marca nao encontrada"
EanNotFound   == "EAN nao encontrado"

\* re.search: the first script, in document order, that satisfies Test; 0 if none
FirstBlock(html, Test(_)) ==
    IF \E i \in 1..Len(html) : Test(html[i])
    THEN CHOOSE i \in 1..Len(html) : Test(html[i]) /\ \A j \in 1..(i - 1) : ~Test(html[j])
    ELSE 0

\* leroy_merlin/scraper/url_extractor.py: extract_brand_from_html
leroy_extract_brand_from_html(html) ==
    LET simple == FirstBlock(html, LAMBDA b : b.field.key = "brand" /\ b.field.form = "string")
        schema == FirstBlock(html, LAMBDA b : b.field.key = "brand" /\ b.field.form = "object")
    IN IF simple # 0 /\ html[simple].field.val # "null" THEN html[simple].field.val
       ELSE IF schema # 0 THEN html[schema].field.val
       ELSE BrandNotFound

\* leroy_merlin/scraper/url_extractor.py: extract_ean_from_html
leroy_extract_ean_from_html(html) ==
    LET plain   == FirstBlock(html, LAMBDA b : /\ b.field.key = "ean"
                                               /\ b.field.form = "string"
                                               /\ b.field.val # "null")
        escaped == FirstBlock(html, LAMBDA b : b.field.key = "ean" /\ b.field.form = "escaped")
    IN IF plain # 0 THEN html[plain].field.val
       ELSE IF escaped # 0 THEN html[escaped].field.val
       ELSE EanNotFound

\* sodimac/scraper/url_extractor.py: extract_brand_from_html
sodimac_extract_brand_from_html(html) ==
    LET found == FirstBlock(html, LAMBDA b : /\ b.kind = "product"
                                             /\ b.field.key = "brand"
                                             /\ b.field.form = "object")
    IN IF found # 0 THEN html[found].field.val ELSE ""

\* sodimac/scraper/url_extractor.py: extract_ean_from_html
sodimac_extract_ean_from_html(html) ==
    LET found == FirstBlock(html, LAMBDA b :
                     /\ b.kind = "product"
                     /\ \/ b.field.key = "gtin13" /\ b.field.val # "null"
                        \/ b.field.key = "upc")
    IN IF found # 0 THEN html[found].field.val ELSE ""

(***************************************************************************)
(* Specification of the brand and barcode extractors                       *)
(***************************************************************************)
BrandStores == {"leroy_merlin", "sodimac"}

InitBrand ==
    /\ RetryIdle
    /\ store \in BrandStores
    /\ page \in BrandPages
    /\ result = NoneValue
    /\ done = FALSE

LeroyExtractBrandEan ==
    /\ store = "leroy_merlin"
    /\ ~done
    /\ result' = [brand |-> leroy_extract_brand_from_html(page.html),
                  ean   |-> leroy_extract_ean_from_html(page.html)]
    /\ done' = TRUE
    /\ UNCHANGED <<store, page, retryVars>>

SodimacExtractBrandEan ==
    /\ store = "sodimac"
    /\ ~done
    /\ result' = [brand |-> sodimac_extract_brand_from_html(page.html),
                  ean   |-> sodimac_extract_ean_from_html(page.html)]
    /\ done' = TRUE
    /\ UNCHANGED <<store, page, retryVars>>

NextBrand == LeroyExtractBrandEan \/ SodimacExtractBrandEan

SpecBrand == InitBrand /\ [][NextBrand]_vars

\* the value stands under one of the keys in a block of the product type
InProductBlock(keys, v) ==
    \E i \in 1..Len(page.html) :
        /\ page.html[i].kind = "product"
        /\ page.html[i].field.key \in keys
        /\ page.html[i].field.val = v

\* C23 (as stated): brand and barcode are read only from a structured-data
\* block whose declared type is Product: a brand or EAN that stands only in
\* a block of another type or elsewhere in the page is never returned.
C23_OnlyFromProductBlock ==
    (done /\ store \in BrandStores) =>
        /\ result.brand \notin {BrandNotFound, ""} =>
               InProductBlock({"brand"}, result.brand)
        /\ result.ean \notin {EanNotFound, ""} =>
               InProductBlock({"ean", "gtin13", "upc"}, result.ean)

\* C23, the part that holds: the Sodimac extractors return a brand or a
\* barcode only from a block of the product type
C23_SodimacOnlyFromProductBlock ==
    (done /\ store = "sodimac") =>
        /\ result.brand # "" => InProductBlock({"brand"}, result.brand)
        /\ result.ean # "" => InProductBlock({"gtin13", "upc"}, result.ean)

\* the step in which an iteration of generate_with_retry met a failing validator
ValidatorFailedStep ==
    /\ store = "pipeline"
    /\ result.pos = "waiting"
    /\ result'.pos # "waiting"
    /\ result'.last = "validator_failed"

\* C24 (as stated): when the fidelity validator itself fails (its call
\* raises or its reply cannot be parsed), generate_with_retry accepts the
\* generated image as validated and returns it without another attempt.
C24_ValidatorFailureAccepts ==
    [][ValidatorFailedStep =>
          /\ result'.pos = "stage_returned"
          /\ result'.image_data = ImageData(result.stage, result.attempt + 1)
          /\ result'.success = TRUE]_vars

\* C25 (as stated): for a Decathlon URL whose HTML extraction succeeds and
\* whose description call returns a description, the product entry carries
\* the description, the token counts of the call and no error, and it is
\* part of the data of the Excel report.
C25_DecathlonEntryCarriesDescription ==
    (UrlBatchDone /\ store = "decathlon") =>
        \A k \in 1..Len(page.items) :
            (page.items[k].p_info.success /\ ~page.items[k].llm.failed) =>
                /\ result.all_products[k].error = NoError
                /\ result.all_products[k].descricao # ""
                /\ result.all_products[k].input_tokens = page.items[k].llm.spent.input
                /\ result.all_products[k].output_tokens = page.items[k].llm.spent.output
                /\ result.all_products[k] \in Elems(result.excel_data)

(***************************************************************************)
(* Further claims about the Sodimac description call                       *)
(***************************************************************************)
\* the token counts a response reports, a missing or null count read as 0
ReportedTokens(o) ==
    LET Count(name) == IF o.usage_metadata.none
                          \/ o.usage_metadata[name] \in {AbsentTok, NullTok}
                       THEN 0 ELSE o.usage_metadata[name]
    IN [input |-> Count("prompt_token_count"), output |-> Count("candidates_token_count")]

\* extract_description_from_url has returned a value
DescReturned == pc = "returned" /\ fn = "desc" /\ ret # NoneValue

\* C26 (as stated): whenever the API responded to the description call, the
\* usage extract_description_from_url returns equals the token counts of
\* that response, also when the text of the response holds no JSON or JSON
\* that fails to parse; zero usage is reported only when no response came.
C26_UsageOfEveryResponse ==
    (DescReturned /\ IsResponse(calls[Len(calls)])) =>
        ret.usage = ReportedTokens(calls[Len(calls)])

\* C26, the part that holds: a response whose text holds no JSON object at
\* all, and whose counts are not null, has its usage returned
C26_UsageWhenNoJson ==
    (/\ DescReturned
     /\ IsResponse(calls[Len(calls)])
     /\ calls[Len(calls)].text.kind = "nojson"
     /\ ~calls[Len(calls)].usage_metadata.none
     /\ NullTok \notin {calls[Len(calls)].usage_metadata.prompt_token_count,
                        calls[Len(calls)].usage_metadata.candidates_token_count}) =>
        ret.usage = ReportedTokens(calls[Len(calls)])

\* the fetch or the baseline extraction of the item failed
ExtractionFailed(route, it) ==
    IF route = "sodimac" THEN it.p_info.raised \/ it.p_info.error # NoError
    ELSE ~it.p_info.success

\* C27 (as stated): in a URL batch route no LLM call is ever made for a URL
\* whose fetch or baseline extraction failed.
C27_NoLlmCallAfterFailedExtraction ==
    store \in {"sodimac", "decathlon"} =>
        \A k \in result.llm_calls : ~ExtractionFailed(store, page.items[k])

\* C27, the part that holds: the Decathlon route makes no LLM call for a URL
\* whose extraction failed
C27_DecathlonNoLlmCallAfterFailedExtraction ==
    store = "decathlon" =>
        \A k \in result.llm_calls : ~ExtractionFailed(store, page.items[k])

(***************************************************************************)
(* Grouping of an image upload into products                               *)
(* sams_club/api/routes.py: process_batch, api/routes.py:                  *)
(* process_batch_endpoint (the same code in both).                         *)
(* A file is its position in the upload; of its name only what             *)
(* re.match(r'(product[_\s]?\d+)', filename.lower()) sees is kept:         *)
(*   named  the name starts with product, an optional _ or space, digits   *)
(*   us     a _ or a space stands between product and the digits           *)
(*   num    the digits                                                     *)
(* A key of product_groups is [us, num]: "product2" is [us |-> FALSE,      *)
(* num |-> 2] and "product_2" is [us |-> TRUE, num |-> 2].                 *)
(***************************************************************************)
MaxUpload == 4
MaxNum == 2

images_per_product == 3

UploadNames ==
    {[named |-> FALSE, us |-> FALSE, num |-> 0]}
    \cup [named : {TRUE}, us : BOOLEAN, num : 1..MaxNum]

Uploads == UNION {[1..n -> UploadNames] : n \in 1..MaxUpload}

GroupRoutes == {"sams_club", "api"}

\* product_groups = {} and unmatched_files = []
GroupStart ==
    [i |-> 0, product_groups |-> [k \in {} |-> <<>>], unmatched_files |-> <<>>, chunk |-> 0]

\* product_groups[key] = files
SetGroup(product_groups, key, files) ==
    [k \in DOMAIN product_groups \cup {key} |-> IF k = key THEN files ELSE product_groups[k]]

\* match.group(1).replace(' ', '_')
ProductId(name) == [us |-> name.us, num |-> name.num]

\* f"product_{len(product_groups) + 1}"
UnmatchedKey(product_groups) ==
    [us |-> TRUE, num |-> Cardinality(DOMAIN product_groups) + 1]

InitGroup ==
    /\ RetryIdle
    /\ store \in GroupRoutes
    /\ page \in [files : Uploads]
    /\ result = GroupStart
    /\ done = FALSE

\* one iteration of `for file in files`
GroupFile ==
    /\ store \in GroupRoutes
    /\ ~done
    /\ result.i < Len(page.files)
    /\ LET file == result.i + 1
           name == page.files[file]
           product_id == ProductId(name)
           groups == result.product_groups
       IN result' =
            IF name.named
            THEN [result EXCEPT
                    !.i = file,
                    !.product_groups =
                        SetGroup(groups, product_id,
                                 Append(IF product_id \in DOMAIN groups
                                        THEN groups[product_id] ELSE <<>>, file))]
            ELSE [result EXCEPT !.i = file, !.unmatched_files = Append(@, file)]
    /\ UNCHANGED <<store, page, done, retryVars>>

\* one iteration of `for i in range(0, len(unmatched_files), images_per_product)`
GroupUnmatched ==
    /\ store \in GroupRoutes
    /\ ~done
    /\ result.i = Len(page.files)
    /\ result.chunk < Len(result.unmatched_files)
    /\ LET i == result.chunk
           n == Len(result.unmatched_files)
           last == IF i + images_per_product < n THEN i + images_per_product ELSE n
           product_key == UnmatchedKey(result.product_groups)
       IN result' = [result EXCEPT
                        !.chunk = i + images_per_product,
                        !.product_groups =
                            SetGroup(@, product_key,
                                     SubSeq(result.unmatched_files, i + 1, last))]
    /\ UNCHANGED <<store, page, done, retryVars>>

\* the grouping is over and the products are processed
GroupingDone ==
    /\ store \in GroupRoutes
    /\ ~done
    /\ result.i = Len(page.files)
    /\ result.chunk >= Len(result.unmatched_files)
    /\ done' = TRUE
    /\ UNCHANGED <<store, page, result, retryVars>>

NextGroup == GroupFile \/ GroupUnmatched \/ GroupingDone

SpecGroup == InitGroup /\ [][NextGroup]_vars

\* the places of product_groups where the file stands
PlacesOf(file) ==
    {p \in UNION {{<<k, j>> : j \in 1..Len(result.product_groups[k])} :
                     k \in DOMAIN result.product_groups} :
        result.product_groups[p[1]][p[2]] = file}

\* C28 (as stated): the grouping step partitions the upload: every uploaded
\* file stands in exactly one product group, no file is dropped, and no
\* named group is overwritten by a group of unnamed files.
C28_GroupingPartitionsUpload ==
    (store \in GroupRoutes /\ done) =>
        \A file \in 1..Len(page.files) : Cardinality(PlacesOf(file)) = 1

\* C28, the part that holds: no file ever stands in two groups or twice in
\* one group, and an upload whose names all match the pattern, or none of
\* whose names match it with a separator, is partitioned
C28_NoFileTwiceAndPartitionWithoutClash ==
    store \in GroupRoutes =>
        /\ \A file \in 1..Len(page.files) : Cardinality(PlacesOf(file)) <= 1
        /\ (/\ done
            /\ \/ \A f \in 1..Len(page.files) : page.files[f].named
               \/ \A f \in 1..Len(page.files) : ~page.files[f].us) =>
              \A file \in 1..Len(page.files) : Cardinality(PlacesOf(file)) = 1

(***************************************************************************)
(* shared/log_streamer.py: the global log_streamer and one SSE stream      *)
(* Entries are numbered in the order log_streamer.log appends them.  The   *)
(* generator of the stream runs in a worker thread, so the route handlers  *)
(* append and clear between any two of its steps.                          *)
(*   logs        LogStreamer.logs                                          *)
(*   pc          position of generate(): "closed" (not requested yet),     *)
(*               "existing", "count", "poll", "send", or "failed" (an      *)
(*               exception left the generator)                             *)
(*   snapshot    the copy iterated by the first loop                       *)
(*   delivered   the entries yielded to the client, in order               *)
(*   after_open  the entries appended since the stream was opened          *)
(***************************************************************************)
MaxEntries == 3
MaxClears == 1

LogStart ==
    [logs |-> <<>>, appended |-> 0, clears |-> 0, pc |-> "closed",
     snapshot |-> <<>>, i |-> 0, last_log_count |-> 0, current_log_count |-> 0,
     delivered |-> <<>>, after_open |-> {}]

InitLog ==
    /\ RetryIdle
    /\ store = "log_stream"
    /\ page = NoneValue
    /\ result = LogStart
    /\ done = FALSE

\* LogStreamer.log: self.logs.append(log_entry)
Log ==
    /\ store = "log_stream"
    /\ result.appended < MaxEntries
    /\ LET e == result.appended + 1
       IN result' = [result EXCEPT
                        !.appended = e,
                        !.logs = Append(@, e),
                        !.after_open = IF result.pc = "closed" THEN @ ELSE @ \cup {e}]
    /\ UNCHANGED <<store, page, done, retryVars>>

\* LogStreamer.clear_logs, called at the start of every batch request
ClearLogs(logs) == <<>>

Clear ==
    /\ store = "log_stream"
    /\ result.clears < MaxClears
    /\ result' = [result EXCEPT !.clears = @ + 1, !.logs = ClearLogs(@)]
    /\ UNCHANGED <<store, page, done, retryVars>>

\* generate() starts: `for log_entry in log_streamer.get_logs()` takes its copy
OpenStream ==
    /\ store = "log_stream"
    /\ result.pc = "closed"
    /\ result' = [result EXCEPT !.pc = "existing", !.snapshot = result.logs, !.i = 0]
    /\ UNCHANGED <<store, page, done, retryVars>>

\* one yield of the first loop, or its end
SendExisting ==
    /\ store = "log_stream"
    /\ result.pc = "existing"
    /\ result' = IF result.i < Len(result.snapshot)
                 THEN [result EXCEPT !.i = @ + 1,
                                     !.delivered = Append(@, result.snapshot[result.i + 1])]
                 ELSE [result EXCEPT !.pc = "count"]
    /\ UNCHANGED <<store, page, done, retryVars>>

\* last_log_count = len(log_streamer.get_logs())
CountExisting ==
    /\ store = "log_stream"
    /\ result.pc = "count"
    /\ result' = [result EXCEPT !.pc = "poll", !.last_log_count = Len(result.logs)]
    /\ UNCHANGED <<store, page, done, retryVars>>

\* `if current_log_count > last_log_count`
HasNewLogs(current_log_count, last_log_count) == current_log_count > last_log_count

\* one turn of `while True` that finds new entries; a turn that finds none
\* only sleeps
Poll ==
    /\ store = "log_stream"
    /\ result.pc = "poll"
    /\ HasNewLogs(Len(result.logs), result.last_log_count)
    /\ result' = [result EXCEPT !.pc = "send",
                                !.current_log_count = Len(result.logs),
                                !.i = result.last_log_count]
    /\ UNCHANGED <<store, page, done, retryVars>>

\* one iteration of `for i in range(last_log_count, current_log_count)`:
\* log_streamer.get_logs()[i] is read anew and raises IndexError when the
\* list has been cleared meanwhile; after the last one the count is stored
SendNew ==
    /\ store = "log_stream"
    /\ result.pc = "send"
    /\ result' =
         IF result.i >= result.current_log_count
         THEN [result EXCEPT !.pc = "poll", !.last_log_count = result.current_log_count]
         ELSE IF result.i + 1 > Len(result.logs)
         THEN [result EXCEPT !.pc = "failed"]
         ELSE [result EXCEPT !.i = @ + 1,
                             !.delivered = Append(@, result.logs[result.i + 1])]
    /\ UNCHANGED <<store, page, done, retryVars>>

StreamStep == OpenStream \/ SendExisting \/ CountExisting \/ Poll \/ SendNew

NextLog == Log \/ Clear \/ OpenStream \/ SendExisting \/ CountExisting \/ Poll \/ SendNew

SpecLog == InitLog /\ [][NextLog]_vars

\* the generator keeps running: the worker thread is scheduled again and
\* again, and time.sleep(0.1) returns
SpecLogFair == SpecLog /\ WF_vars(StreamStep)

\* the number of times the entry was delivered
Deliveries(e) == Cardinality({j \in 1..Len(result.delivered) : result.delivered[j] = e})

\* C29 (as stated): every entry appended to the global log_streamer after
\* the stream was opened is eventually delivered on that stream, exactly
\* once and in the order of appending, also when it was appended after a
\* later clear_logs.
C29_EveryEntryDeliveredOnceInOrder ==
    /\ \A e \in 1..MaxEntries :
          (store = "log_stream" /\ e \in result.after_open) ~> (Deliveries(e) = 1)
    /\ [](store = "log_stream" =>
            /\ \A e \in result.after_open : Deliveries(e) <= 1
            /\ \A j, k \in 1..Len(result.delivered) :
                  (j < k /\ {result.delivered[j], result.delivered[k]} \subseteq result.after_open)
                      => result.delivered[j] < result.delivered[k])

\* C29, the part that holds: as long as clear_logs has not been called, no
\* entry is delivered twice and the entries are delivered in the order of
\* appending
C29_InOrderWithoutClear ==
    (store = "log_stream" /\ result.clears = 0) =>
        /\ \A e \in 1..MaxEntries : Deliveries(e) <= 1
        /\ \A j, k \in 1..Len(result.delivered) :
              j < k => result.delivered[j] < result.delivered[k]

(***************************************************************************)
(* magalu/api/routes.py: the unified orders table                          *)
(* An order of the marketplace has an id and a code, two different         *)
(* strings.  A row of the table keeps the columns the handlers compare     *)
(* or update: external_id (which field of which order it was taken from),  *)
(* status and total_amount (in centavos).                                  *)
(*   orders  the rows of the table orders                                  *)
(*   last    per order, status and amount of the last webhook              *)
(*           notification that was processed for it                        *)
(***************************************************************************)
MagaluOrders == {"A", "B"}

\* what get_magalu_order_details returns: None, or the order
MagaluData == [status : {"new", "approved"}, total : {1000, 2500}, normalizer : {100}]
MagaluDetails == {NoneValue} \cup MagaluData

ExternalId(field, o) == [field |-> field, order |-> o]

\* float(total) / normalizer, in centavos
MagaluAmount(total, normalizer) == (total * 100) \div normalizer

\* db.query(Order).filter(Order.external_id == ext_id).first()
ExistingOrder(orders, ext_id) == {r \in orders : r.external_id = ext_id}

\* the requests of the sync route: the ids to process, in order, and the
\* details fetched for each
SyncRequests ==
    LET ids == {<<>>} \cup {<<o>> : o \in MagaluOrders}
                 \cup {<<a, b>> : a, b \in MagaluOrders}
    IN UNION {[ids : {s}, details : [1..Len(s) -> MagaluDetails]] : s \in ids}

\* one iteration of `for pid in ids_to_process` of sync_magalu_orders
SyncOne(orders, pid, full_data) ==
    IF full_data = NoneValue THEN orders
    ELSE LET ext_id == ExternalId("id", pid)
         IN IF ExistingOrder(orders, ext_id) # {} THEN orders
            ELSE orders \cup {[external_id |-> ext_id,
                               status |-> full_data.status,
                               total_amount |-> MagaluAmount(full_data.total, 100)]}

RECURSIVE SyncLoop(_, _, _)
SyncLoop(orders, ids, details) ==
    IF ids = <<>> THEN orders
    ELSE SyncLoop(SyncOne(orders, Head(ids), Head(details)), Tail(ids), Tail(details))

\* the notifications of the webhook: a challenge, or a resource with what
\* the credential lookup, the token and the details call give
WebhookRequests ==
    {[challenge |-> TRUE, resource |-> "A", creds |-> TRUE, token |-> "ok",
      details |-> NoneValue]}
    \cup [challenge : {FALSE}, resource : MagaluOrders, creds : BOOLEAN,
          token : {"ok", "raise"}, details : MagaluDetails]

\* the notification reaches the upsert
WebhookProcessed(data) ==
    /\ ~data.challenge
    /\ data.creds
    /\ data.token = "ok"
    /\ data.details # NoneValue

\* `"paid" if raw_status == "approved" else raw_status`
StatusFinal(raw_status) == IF raw_status = "approved" THEN "paid" ELSE raw_status

\* the upsert of magalu_webhook_receiver
WebhookUpsert(orders, o, full_data) ==
    LET ext_id == ExternalId("code", o)
        status_final == StatusFinal(full_data.status)
        total_final == MagaluAmount(full_data.total, full_data.normalizer)
        row == [external_id |-> ext_id, status |-> status_final,
                total_amount |-> total_final]
    IN (orders \ ExistingOrder(orders, ext_id)) \cup {row}

MagaluStart == [orders |-> {}, last |-> [o \in MagaluOrders |-> NoneValue]]

InitMagalu ==
    /\ RetryIdle
    /\ store = "magalu"
    /\ page = NoneValue
    /\ result = MagaluStart
    /\ done = FALSE

\* GET /sync-orders
SyncMagaluOrders ==
    /\ store = "magalu"
    /\ \E req \in SyncRequests :
          result' = [result EXCEPT !.orders = SyncLoop(@, req.ids, req.details)]
    /\ UNCHANGED <<store, page, done, retryVars>>

\* POST /notifications
MagaluWebhookReceiver ==
    /\ store = "magalu"
    /\ \E data \in WebhookRequests :
          result' = IF WebhookProcessed(data)
                    THEN [result EXCEPT
                            !.orders = WebhookUpsert(@, data.resource, data.details),
                            !.last[data.resource] =
                                [status |-> StatusFinal(data.details.status),
                                 total_amount |-> MagaluAmount(data.details.total,
                                                               data.details.normalizer)]]
                    ELSE result
    /\ UNCHANGED <<store, page, done, retryVars>>

NextMagalu == SyncMagaluOrders \/ MagaluWebhookReceiver

SpecMagalu == InitMagalu /\ [][NextMagalu]_vars

\* the rows of the table that belong to the order
RowsOf(o) == {r \in result.orders : r.external_id.order = o}

\* C30 (as stated): after any sequence of sync-orders calls and webhook
\* notifications, each Magalu order has at most one row in the orders table,
\* and that row holds the status and the amount of the most recently
\* processed notification.
C30_OneRowPerOrderWithLatestStatus ==
    store = "magalu" =>
        \A o \in MagaluOrders :
            /\ Cardinality(RowsOf(o)) <= 1
            /\ result.last[o] # NoneValue =>
                  \A r \in RowsOf(o) : /\ r.status = result.last[o].status
                                       /\ r.total_amount = result.last[o].total_amount

\* C30, the part that holds: no two rows have the same external_id, and the
\* row the webhook keys by the order code holds the status and the amount of
\* the most recently processed notification
C30_OneRowPerExternalId ==
    store = "magalu" =>
        /\ \A r, q \in result.orders : r.external_id = q.external_id => r = q
        /\ \A o \in MagaluOrders :
              result.last[o] # NoneValue =>
                  \E r \in result.orders :
                      /\ r.external_id = ExternalId("code", o)
                      /\ r.status = result.last[o].status
                      /\ r.total_amount = result.last[o].total_amount

====
